---- MODULE Spec2Model ----
(***************************************************************************)
(* A model of the Kaleidoscope front end: the lexer (package lexer), the   *)
(* recursive-descent parser (package parser, parser.go), and the code      *)
(* generator (ast.go and the codegen helpers).                             *)
(*                                                                         *)
(* Bytes are integers (their code), strings are sequences of bytes.        *)
(***************************************************************************)
EXTENDS Integers, Sequences, FiniteSets, TLC

VARIABLES
    \* ---- lexer (type Lexer) ----
    input,      \* the bytes behind Lexer.reader
    rpos,       \* number of bytes Lexer.reader has consumed
    CurrTok,    \* Lexer.CurrTok
    String,     \* Lexer.String
    NumVal,     \* Lexer.NumVal
    lexStatus,  \* "ok", or "panic" once a call of NextToken aborted
    \* ---- parser (type Parser): the lexer as the parser sees it ----
    tokens,     \* the tokens NextToken delivers
    tpos,       \* CurrTok is token tpos (0: NextToken not yet called)
    parsed,     \* the result of the parse function called last
    \* ---- generator: the package variables ----
    Module,     \* Module.Funcs
    namedValues,
    \* ---- Parser.Shell ----
    shStatus,   \* "start", "running", "done" (returned), "fatal" (log.Fatalf)
                \* or "panic"
    lastErr,    \* the error of the failure, "" if none
    output,     \* the modules printed to standard output
    \* ---- position inside FunctionAST.CodeGen ----
    curBlock,   \* the current block of genStatements, NilBlock outside
    curProto,   \* the Prototype of the function being lowered
    last,       \* the declaration or statement lowered last
    ndecls,     \* declarations lowered so far
    nstmts      \* statements lowered so far

lexVars == <<input, rpos, CurrTok, String, NumVal, lexStatus>>
parseVars == <<tokens, tpos, parsed>>
genVars == <<Module, namedValues>>
shellVars == <<shStatus, lastErr, output>>
funcVars == <<curBlock, curProto, last, ndecls, nstmts>>

vars == <<input, rpos, CurrTok, String, NumVal, lexStatus, tokens, tpos, parsed,
          Module, namedValues, shStatus, lastErr, output,
          curBlock, curProto, last, ndecls, nstmts>>

----------------------------------------------------------------------------
(* Bytes *)

Ord ==
    [c \in {" ", "\"", "(", ")", "*", "+", ",", "-", ".", "/", "1", "2",
            ";", "<", "=", ">", "!", "_", "{", "}",
            "a", "b", "c", "d", "e", "f", "g", "h", "i", "l", "n", "o",
            "r", "s", "t", "u", "v", "w", "x"} |->
        CASE c = " "  -> 32  [] c = "!" -> 33  [] c = "\"" -> 34
          [] c = "("  -> 40  [] c = ")" -> 41  [] c = "*"  -> 42
          [] c = "+"  -> 43  [] c = "," -> 44  [] c = "-"  -> 45
          [] c = "."  -> 46  [] c = "/" -> 47  [] c = "1"  -> 49
          [] c = "2"  -> 50  [] c = ";" -> 59  [] c = "<"  -> 60
          [] c = "="  -> 61  [] c = ">" -> 62  [] c = "_"  -> 95
          [] c = "a"  -> 97  [] c = "b" -> 98  [] c = "c"  -> 99
          [] c = "d"  -> 100 [] c = "e" -> 101 [] c = "f"  -> 102
          [] c = "g"  -> 103 [] c = "h" -> 104 [] c = "i"  -> 105
          [] c = "l"  -> 108 [] c = "n" -> 110 [] c = "o"  -> 111
          [] c = "r"  -> 114 [] c = "s" -> 115 [] c = "t"  -> 116
          [] c = "u"  -> 117 [] c = "v" -> 118 [] c = "w"  -> 119
          [] c = "x"  -> 120 [] c = "{" -> 123 [] c = "}"  -> 125]

\* the bytes of a word given as a tuple of one-character strings
Bytes(w) == [k \in 1..Len(w) |-> Ord[w[k]]]

\* string(rune(c)): the character of a byte of the table, and U+FFFD for a
\* negative code (the tokens that are not bytes)
RuneText(c) ==
    IF \E ch \in DOMAIN Ord : Ord[ch] = c
    THEN CHOOSE ch \in DOMAIN Ord : Ord[ch] = c
    ELSE "U+FFFD"

\* unicode.IsLetter, unicode.IsDigit, unicode.IsSpace restricted to one byte
IsLetter(c) == c \in (65..90) \cup (97..122) \cup {170, 181, 186}
                      \cup (192..214) \cup (216..246) \cup (248..255)
IsDigit(c) == c \in 48..57
IsSpace(c) == c \in {9, 10, 11, 12, 13, 32, 133, 160}

----------------------------------------------------------------------------
(* Tokens *)

TokIdentifier == -1
TokNumVal == -2
TokStringConst == -3
TokString == -4
TokDouble == -5
TokVoid == -6
TokDef == -10
TokExtern == -11
TokSet == -12
TokReturn == -13
TokConst == -14
TokIf == -15
TokElse == -16
TokWhile == -27
TokEOF == -99

----------------------------------------------------------------------------
(* The lexer.  A reader is the pair (input, position); ReadByte fails at  *)
(* the end of the input and Peek(n) returns the bytes that are left, at   *)
(* most n of them.                                                        *)

CanRead(inp, p) == p < Len(inp)
Peek(inp, p, n) == SubSeq(inp, p + 1, IF p + n <= Len(inp) THEN p + n ELSE Len(inp))

validIdentChar(chr) == IsLetter(chr) \/ IsDigit(chr) \/ chr = 95

validFirstIdentChar(chr) == IsLetter(chr)

\* skipWhitespace(chr, err): the byte after the whitespace, or an error
RECURSIVE skipWhitespace(_, _, _)
skipWhitespace(inp, p, chr) ==
    IF IsSpace(chr)
    THEN IF CanRead(inp, p)
         THEN skipWhitespace(inp, p + 1, inp[p + 1])
         ELSE [chr |-> 0, err |-> TRUE, pos |-> p, short |-> FALSE]
    ELSE [chr |-> chr, err |-> FALSE, pos |-> p, short |-> FALSE]

\* the loop of skipCommentsAndWhitespace that reads up to the closing */
RECURSIVE skipCommentBody(_, _)
skipCommentBody(inp, p) ==
    LET peek == Peek(inp, p, 2) IN
    IF Len(peek) < 2
    THEN [err |-> TRUE, pos |-> p]
    ELSE IF peek[1] # 42 \/ peek[2] # 47
         THEN skipCommentBody(inp, p + 1)
         ELSE [err |-> FALSE, pos |-> p]

skipCommentsAndWhitespace(inp, p, chr0) ==
    LET w == skipWhitespace(inp, p, chr0) IN
    IF w.err THEN w
    ELSE
    LET peek == Peek(inp, w.pos, 1) IN
    IF Len(peek) < 1 THEN [chr |-> 0, err |-> FALSE, pos |-> w.pos, short |-> TRUE]
    ELSE IF w.chr = 47 /\ peek[1] = 42
    THEN \* Eat *
         LET c == skipCommentBody(inp, w.pos + 1) IN
         IF c.err THEN [chr |-> 0, err |-> TRUE, pos |-> c.pos, short |-> FALSE]
         ELSE \* Eat */
           LET q == c.pos + 2 IN
           IF ~CanRead(inp, q) THEN [chr |-> 0, err |-> TRUE, pos |-> q, short |-> FALSE]
           ELSE skipWhitespace(inp, q + 1, inp[q + 1])
    ELSE [chr |-> w.chr, err |-> FALSE, pos |-> w.pos, short |-> FALSE]

\* the result of parseToken: the token, the fields it sets, whether the
\* call aborted on peek[0] of an empty Peek, and whether the reader ran out
\* of bytes during the call (a failed ReadByte or a short Peek)
LexResult(tok, p, str, num, panic, eos) ==
    [tok |-> tok, pos |-> p, str |-> str, num |-> num, panic |-> panic,
     eos |-> eos]

\* the loops "for pred(peek[0]) { ReadByte; append; Peek }"
RECURSIVE scanIdent(_, _, _)
scanIdent(inp, p, str) ==
    LET peek == Peek(inp, p, 1) IN
    IF Len(peek) < 1 THEN [panic |-> TRUE, pos |-> p, str |-> str]
    ELSE IF validIdentChar(peek[1])
         THEN scanIdent(inp, p + 1, Append(str, peek[1]))
         ELSE [panic |-> FALSE, pos |-> p, str |-> str]

RECURSIVE scanDigits(_, _, _)
scanDigits(inp, p, str) ==
    LET peek == Peek(inp, p, 1) IN
    IF Len(peek) < 1 THEN [panic |-> TRUE, pos |-> p, str |-> str]
    ELSE IF IsDigit(peek[1])
         THEN scanDigits(inp, p + 1, Append(str, peek[1]))
         ELSE [panic |-> FALSE, pos |-> p, str |-> str]

RECURSIVE scanString(_, _, _)
scanString(inp, p, str) ==
    LET peek == Peek(inp, p, 1) IN
    IF Len(peek) < 1 THEN [panic |-> TRUE, pos |-> p, str |-> str]
    ELSE IF peek[1] # 34
         THEN scanString(inp, p + 1, Append(str, peek[1]))
         ELSE [panic |-> FALSE, pos |-> p, str |-> str]

\* strconv.ParseFloat of digit+ ('.' digit*)?: the decimal value as
\* <<mantissa, number of decimals>>, without trailing zero decimals
RECURSIVE DigitsValue(_, _)
DigitsValue(s, acc) ==
    IF s = <<>> THEN acc ELSE DigitsValue(Tail(s), 10 * acc + (Head(s) - 48))

RECURSIVE Normalise(_, _)
Normalise(m, d) == IF d > 0 /\ m % 10 = 0 THEN Normalise(m \div 10, d - 1) ELSE <<m, d>>

ParseFloat(intPart, fracPart) ==
    Normalise(DigitsValue(intPart \o fracPart, 0), Len(fracPart))

keyword(str) ==
    CASE str = Bytes(<<"d", "e", "f">>) -> TokDef
      [] str = Bytes(<<"e", "x", "t", "e", "r", "n">>) -> TokExtern
      [] str = Bytes(<<"s", "e", "t">>) -> TokSet
      [] str = Bytes(<<"c", "o", "n", "s", "t">>) -> TokConst
      [] str = Bytes(<<"r", "e", "t", "u", "r", "n">>) -> TokReturn
      [] str = Bytes(<<"i", "f">>) -> TokIf
      [] str = Bytes(<<"e", "l", "s", "e">>) -> TokElse
      [] str = Bytes(<<"w", "h", "i", "l", "e">>) -> TokWhile
      [] str = Bytes(<<"s", "t", "r", "i", "n", "g">>) -> TokString
      [] str = Bytes(<<"d", "o", "u", "b", "l", "e">>) -> TokDouble
      [] str = Bytes(<<"v", "o", "i", "d">>) -> TokVoid
      [] OTHER -> TokIdentifier

parseToken(inp, p, oldStr, oldNum) ==
    IF ~CanRead(inp, p) THEN LexResult(TokEOF, p, oldStr, oldNum, FALSE, TRUE)
    ELSE
    LET s == skipCommentsAndWhitespace(inp, p + 1, inp[p + 1])
        chr == s.chr
    IN
    IF s.err THEN LexResult(TokEOF, s.pos, oldStr, oldNum, FALSE, TRUE)
    ELSE IF validFirstIdentChar(chr)
    THEN \* identifier/keyword token
        LET r == scanIdent(inp, s.pos, <<chr>>) IN
        IF r.panic THEN LexResult(0, r.pos, oldStr, oldNum, TRUE, TRUE)
        ELSE IF keyword(r.str) # TokIdentifier
             THEN LexResult(keyword(r.str), r.pos, oldStr, oldNum, FALSE, FALSE)
             ELSE LexResult(TokIdentifier, r.pos, r.str, oldNum, FALSE, FALSE)
    ELSE IF IsDigit(chr)
    THEN \* Number token
        LET r == scanDigits(inp, s.pos, <<chr>>) IN
        IF r.panic THEN LexResult(0, r.pos, oldStr, oldNum, TRUE, TRUE)
        ELSE IF inp[r.pos + 1] = 46
        THEN LET f == scanDigits(inp, r.pos + 1, <<>>) IN
             IF f.panic THEN LexResult(0, f.pos, oldStr, oldNum, TRUE, TRUE)
             ELSE LexResult(TokNumVal, f.pos, oldStr, ParseFloat(r.str, f.str), FALSE, FALSE)
        ELSE LexResult(TokNumVal, r.pos, oldStr, ParseFloat(r.str, <<>>), FALSE, FALSE)
    ELSE IF chr = 34
    THEN \* String constant token
        LET r == scanString(inp, s.pos, <<>>) IN
        IF r.panic THEN LexResult(0, r.pos, oldStr, oldNum, TRUE, TRUE)
        ELSE \* Eat "
             LexResult(TokStringConst, r.pos + 1, r.str, oldNum, FALSE, FALSE)
    ELSE \* Return other tokens as they are
        LexResult(chr, s.pos, oldStr, oldNum, FALSE, s.short)

\* Lexer.NextToken; a call that aborts leaves the fields as they were
NextToken ==
    /\ lexStatus = "ok"
    /\ LET r == parseToken(input, rpos, String, NumVal) IN
       /\ rpos' = r.pos
       /\ IF r.panic
          THEN /\ lexStatus' = "panic"
               /\ UNCHANGED <<CurrTok, String, NumVal>>
          ELSE /\ CurrTok' = r.tok
               /\ String' = r.str
               /\ NumVal' = r.num
               /\ UNCHANGED lexStatus
    /\ UNCHANGED <<input, parseVars, genVars, shellVars, funcVars>>


----------------------------------------------------------------------------
(* The parser (parser.go).  The parser sees the lexer as a stream of      *)
(* tokens: toks is the sequence of tokens NextToken delivers, each with   *)
(* the payload the lexer holds for it (Lexer.String, Lexer.NumVal), and a *)
(* position i stands for "CurrTok is token i"; past the last token the    *)
(* lexer delivers TokEOF.  Every parse function maps (toks, i) to its     *)
(* result [ast, err, pos]: err = "" is Go's nil error and pos the         *)
(* position it leaves the lexer at.                                       *)

\* type Type
Invalid == -1
Double == 1
StringT == 2
Void == 3

Tok(t, str, num) == [tok |-> t, str |-> str, num |-> num]
P(c) == Tok(Ord[c], "", 0)
Kw(t) == Tok(t, "", 0)
Id(name) == Tok(TokIdentifier, name, 0)
Num(n) == Tok(TokNumVal, "", n)
Str(x) == Tok(TokStringConst, x, 0)

Cur(toks, i) == IF i <= Len(toks) THEN toks[i].tok ELSE TokEOF

\* AST nodes; the StatementAST wrapper is transparent, and a nil ElseBody
\* is the empty sequence (parseStatementBlock never returns an empty body)
NoAST == [kind |-> "nil"]
NumberExprAST(v) == [kind |-> "Num", val |-> v]
StringExprAST(v) == [kind |-> "Str", val |-> v]
VariableExprAST(n) == [kind |-> "Var", name |-> n]
CallExprAST(f, args) == [kind |-> "Call", func |-> f, args |-> args]
BinaryExprAST(l, op, r) == [kind |-> "Bin", lhs |-> l, op |-> op, rhs |-> r]
AssignmentAST(n, e) == [kind |-> "Assign", name |-> n, expr |-> e]
ReturnAST(e) == [kind |-> "Return", expr |-> e]
IfAST(c, t, e) == [kind |-> "If", cond |-> c, ifBody |-> t, elseBody |-> e]
WhileAST(c, b) == [kind |-> "While", cond |-> c, body |-> b]
Param(n, t) == [name |-> n, type |-> t]
PrototypeAST(f, ps, rt) == [kind |-> "Proto", name |-> f, params |-> ps, ret |-> rt]
FunctionAST(proto, body) == [kind |-> "Func", proto |-> proto, body |-> body]

Ok(ast, i) == [ast |-> ast, err |-> "", pos |-> i]
Fail(msg, i) == [ast |-> NoAST, err |-> msg, pos |-> i]

opPrecedence ==
    [c \in {Ord["="], Ord["!"], Ord["<"], Ord[">"], Ord["+"], Ord["-"], Ord["*"]} |->
        CASE c = Ord["="] -> 0
          [] c = Ord["!"] -> 0
          [] c = Ord["<"] -> 10
          [] c = Ord[">"] -> 10
          [] c = Ord["+"] -> 20
          [] c = Ord["-"] -> 20
          [] c = Ord["*"] -> 40]

IsOperator(chr) == chr \in DOMAIN opPrecedence

GetPrecedence_Flat(op) == 0

GetPrecedence(op) == opPrecedence[op]

\* The parse functions call each other through Parse, which dispatches on
\* the name of the function called; n and x are the arguments a function
\* takes besides the lexer (0 and NoAST where it takes none).
RECURSIVE Parse(_, _, _, _, _)


parseDoubleConst(toks, i) == Ok(NumberExprAST(toks[i].num), i + 1)

parseStringConst(toks, i) == Ok(StringExprAST(toks[i].str), i + 1)

parseParenExpr(toks, i) ==
    \* Consume '('
    LET e == Parse("parseExpression", toks, i + 1, 0, NoAST) IN
    IF e.err # "" THEN e
    ELSE IF Cur(toks, e.pos) # Ord[")"]
         THEN Fail("expected closing ) for expression", e.pos)
         ELSE Ok(e.ast, e.pos + 1)

\* the argument loop of parseIdentifierExpr
parseCallArgs(toks, i, args) ==
    LET arg == Parse("parseExpression", toks, i, 0, NoAST) IN
    IF arg.err # "" THEN [args |-> args, err |-> arg.err, pos |-> arg.pos]
    ELSE LET currTok == Cur(toks, arg.pos) IN
         IF currTok # Ord[","] /\ currTok # Ord[")"]
         THEN [args |-> args, err |-> "expected , or ) in function call", pos |-> arg.pos]
         ELSE IF currTok = Ord[")"]
              THEN [args |-> Append(args, arg.ast), err |-> "", pos |-> arg.pos + 1]
              ELSE Parse("parseCallArgs", toks, arg.pos + 1, 0, Append(args, arg.ast))

parseIdentifierExpr(toks, i) ==
    LET id == toks[i].str IN
    IF Cur(toks, i + 1) # Ord["("]
    THEN Ok(VariableExprAST(id), i + 1)
    ELSE \* Eat (
         IF Cur(toks, i + 2) # Ord[")"]
         THEN LET a == Parse("parseCallArgs", toks, i + 2, 0, <<>>) IN
              IF a.err # "" THEN Fail(a.err, a.pos)
              ELSE Ok(CallExprAST(id, a.args), a.pos)
         ELSE \* Eat )
              Ok(CallExprAST(id, <<>>), i + 3)

ParsePrimary(toks, i) ==
    LET t == Cur(toks, i) IN
    CASE t = TokIdentifier -> parseIdentifierExpr(toks, i)
      [] t = TokNumVal -> parseDoubleConst(toks, i)
      [] t = TokStringConst -> parseStringConst(toks, i)
      [] t = Ord["("] -> parseParenExpr(toks, i)
      [] OTHER -> Fail("unknown token when parsing primary: " \o RuneText(t), i)

parseBinaryExprRHS(toks, i, exprPrecedence, lhsExpr) ==
    LET tokPrecedence ==
            IF IsOperator(Cur(toks, i)) THEN GetPrecedence(Cur(toks, i)) ELSE -1
    IN
    IF tokPrecedence < exprPrecedence THEN Ok(lhsExpr, i)
    ELSE
    LET op == Cur(toks, i)
        rhs == Parse("ParsePrimary", toks, i + 1, 0, NoAST)
    IN
    IF rhs.err # "" THEN rhs
    ELSE
    LET nextPrecedence ==
            IF IsOperator(Cur(toks, rhs.pos))
            THEN GetPrecedence(Cur(toks, rhs.pos)) ELSE -1
        rhs2 == IF tokPrecedence < nextPrecedence
                THEN Parse("parseBinaryExprRHS", toks, rhs.pos, tokPrecedence + 1, rhs.ast)
                ELSE rhs
    IN
    IF rhs2.err # "" THEN rhs2
    ELSE Parse("parseBinaryExprRHS", toks, rhs2.pos, exprPrecedence,
               BinaryExprAST(lhsExpr, op, rhs2.ast))

parseExpression(toks, i) ==
    LET lhsExpr == Parse("ParsePrimary", toks, i, 0, NoAST) IN
    IF lhsExpr.err # "" THEN lhsExpr
    ELSE Parse("parseBinaryExprRHS", toks, lhsExpr.pos, 0, lhsExpr.ast)

parseAssignment(toks, i) ==
    \* Eat "set" or "const"
    IF Cur(toks, i + 1) # TokIdentifier
    THEN Fail("expected identifier after set", i + 1)
    ELSE
    LET ident == toks[i + 1].str IN
    IF Cur(toks, i + 2) # Ord["="]
    THEN Fail("expected = in set statement", i + 2)
    ELSE \* Eat =
         LET e == Parse("parseExpression", toks, i + 3, 0, NoAST) IN
         IF e.err # "" THEN e
         ELSE Ok(AssignmentAST(ident, e.ast), e.pos)

parseReturn(toks, i) ==
    \* Eat "return"
    LET e == Parse("parseExpression", toks, i + 1, 0, NoAST) IN
    IF e.err # "" THEN e
    ELSE Ok(ReturnAST(e.ast), e.pos)

parseIf(toks, i) ==
    \* Eat "if"
    LET cond == Parse("parseExpression", toks, i + 1, 0, NoAST) IN
    IF cond.err # "" THEN cond
    ELSE
    LET ifBody == Parse("parseStatementBlock", toks, cond.pos, 0, NoAST) IN
    IF ifBody.err # "" THEN ifBody
    ELSE IF Cur(toks, ifBody.pos) = TokElse
         THEN \* Eat "else"
              LET elseBody == Parse("parseStatementBlock", toks, ifBody.pos + 1, 0, NoAST) IN
              IF elseBody.err # "" THEN elseBody
              ELSE Ok(IfAST(cond.ast, ifBody.ast, elseBody.ast), elseBody.pos)
         ELSE Ok(IfAST(cond.ast, ifBody.ast, <<>>), ifBody.pos)

parseWhile(toks, i) ==
    \* Eat "while"
    LET cond == Parse("parseExpression", toks, i + 1, 0, NoAST) IN
    IF cond.err # "" THEN cond
    ELSE
    LET whileBody == Parse("parseStatementBlock", toks, cond.pos, 0, NoAST) IN
    IF whileBody.err # "" THEN whileBody
    ELSE Ok(WhileAST(cond.ast, whileBody.ast), whileBody.pos)

parseStatement(toks, i) ==
    LET t == Cur(toks, i)
        r == CASE t = TokSet -> parseAssignment(toks, i)
               [] t = TokReturn -> parseReturn(toks, i)
               [] t = TokIf -> parseIf(toks, i)
               [] t = TokWhile -> parseWhile(toks, i)
               [] OTHER -> Parse("parseExpression", toks, i, 0, NoAST)
    IN
    IF r.err # "" THEN r
    ELSE IF Cur(toks, r.pos) # Ord[";"]
         THEN Fail("expected ; at end of statement", r.pos)
         ELSE \* Eat ;
              Ok(r.ast, r.pos + 1)

\* the statement loop of parseStatementBlock
parseStatements(toks, i, body) ==
    LET stmt == Parse("parseStatement", toks, i, 0, NoAST) IN
    IF stmt.err # "" THEN stmt
    ELSE IF Cur(toks, stmt.pos) = Ord["}"]
         THEN \* Eat }
              Ok(Append(body, stmt.ast), stmt.pos + 1)
         ELSE Parse("parseStatements", toks, stmt.pos, 0, Append(body, stmt.ast))

parseStatementBlock(toks, i) ==
    IF Cur(toks, i) # Ord["{"]
    THEN Fail("expected { for statement block", i)
    ELSE \* Eat {
         Parse("parseStatements", toks, i + 1, 0, <<>>)

parseParam(toks, i) ==
    LET t == Cur(toks, i)
        typ == CASE t = TokString -> StringT
                 [] t = TokDouble -> Double
                 [] OTHER -> Invalid
    IN
    IF typ = Invalid
    THEN Fail("expected type for function parameter", i + 1)
    ELSE IF Cur(toks, i + 1) # TokIdentifier
         THEN Fail("invalid identifier for function parameter", i + 1)
         ELSE Ok(Param(toks[i + 1].str, typ), i + 2)

\* the parameter loop of parseFuncPrototype
RECURSIVE parseParams(_, _, _)
parseParams(toks, i, params) ==
    LET param == parseParam(toks, i) IN
    IF param.err # "" THEN param
    ELSE LET currTok == Cur(toks, param.pos) IN
         IF currTok # Ord[","] /\ currTok # Ord[")"]
         THEN Fail("expected , or ) in function prototype", param.pos)
         ELSE IF currTok = Ord[")"]
              THEN Ok(Append(params, param.ast), param.pos + 1)
              ELSE parseParams(toks, param.pos + 1, Append(params, param.ast))

parseFuncPrototype(toks, i) ==
    LET t == Cur(toks, i)
        retType == CASE t = TokString -> StringT
                     [] t = TokDouble -> Double
                     [] t = TokVoid -> Void
                     [] OTHER -> Invalid
    IN
    IF retType = Invalid
    THEN Fail("expected function return type before name", i + 1)
    ELSE IF Cur(toks, i + 1) # TokIdentifier
    THEN Fail("invalid identifier for function definition", i + 1)
    ELSE
    LET funcName == toks[i + 1].str IN
    IF Cur(toks, i + 2) # Ord["("]
    THEN Fail("expected ( for function definition", i + 2)
    ELSE \* Eat (
         IF Cur(toks, i + 3) # Ord[")"]
         THEN LET ps == parseParams(toks, i + 3, <<>>) IN
              IF ps.err # "" THEN ps
              ELSE Ok(PrototypeAST(funcName, ps.ast, retType), ps.pos)
         ELSE \* Eat )
              Ok(PrototypeAST(funcName, <<>>, retType), i + 4)

parseExternFunc(toks, i) ==
    \* Eat 'extern'
    LET prototype == parseFuncPrototype(toks, i + 1) IN
    IF prototype.err # "" THEN prototype
    ELSE IF Cur(toks, prototype.pos) # Ord[";"]
         THEN Fail("expected ; after extern statement", prototype.pos)
         ELSE \* Eat ;
              Ok(prototype.ast, prototype.pos + 1)

parseFuncDef(toks, i) ==
    \* Eat 'def'
    LET prototype == parseFuncPrototype(toks, i + 1) IN
    IF prototype.err # "" THEN prototype
    ELSE LET body == Parse("parseStatementBlock", toks, prototype.pos, 0, NoAST) IN
         IF body.err # "" THEN body
         ELSE Ok(FunctionAST(prototype.ast, body.ast), body.pos)

Parse(fn, toks, i, n, x) ==
    CASE fn = "parseExpression" -> parseExpression(toks, i)
      [] fn = "ParsePrimary" -> ParsePrimary(toks, i)
      [] fn = "parseBinaryExprRHS" -> parseBinaryExprRHS(toks, i, n, x)
      [] fn = "parseCallArgs" -> parseCallArgs(toks, i, x)
      [] fn = "parseAssignment" -> parseAssignment(toks, i)
      [] fn = "parseStatement" -> parseStatement(toks, i)
      [] fn = "parseStatements" -> parseStatements(toks, i, x)
      [] fn = "parseStatementBlock" -> parseStatementBlock(toks, i)
      [] fn = "parseExternFunc" -> parseExternFunc(toks, i)
      [] fn = "parseFuncDef" -> parseFuncDef(toks, i)

----------------------------------------------------------------------------
(* The IR (the part of github.com/llir/llvm the generator uses).          *)
(*                                                                        *)
(* An IR type is a sequence of strings: <<"double">>, <<"i8">>, <<"i1">>, *)
(* <<"void">>, a pointer <<"ptr">> \o elem, the array of bytes of a       *)
(* string literal <<"array", text>>.  A function is identified by its     *)
(* index in Module.Funcs (0 is Go's nil *ir.Func), a block by its index   *)
(* in the function's Blocks, an instruction by its index in the block.    *)

TDouble == <<"double">>
TI8 == <<"i8">>
TI1 == <<"i1">>
TVoid == <<"void">>
TNil == <<"nil">>
Ptr(elem) == <<"ptr">> \o elem
TI8Ptr == Ptr(TI8)
CharArray(text) == <<"array", text>>

IsPtr(t) == Head(t) = "ptr"
ElemType(t) == Tail(t)

\* values: a constant, a function parameter, the result of an instruction,
\* and Go's nil interface value
ConstFloat(v) == [k |-> "const", ty |-> TDouble, v |-> v]
ConstCharArray(text) == [k |-> "const", ty |-> CharArray(text), v |-> 0]
ParamValue(f, n, t) == [k |-> "param", ty |-> t, f |-> f, name |-> n]
InstValue(blk, idx, t) == [k |-> "inst", ty |-> t, f |-> blk.f, b |-> blk.b, idx |-> idx]
NilValue == [k |-> "nil"]

IsConstant(val) == val.k = "const"

NilBlock == [f |-> 0, b |-> 0]
NoTerm == [op |-> "none"]

\* the generator's process-wide state: Module and namedValues
Blocks(st, f) == st.Module[f].blocks
BlockOf(st, blk) == st.Module[blk.f].blocks[blk.b]

\* block.NewXxx: append an instruction to the block
Emit(st, blk, inst) ==
    [st EXCEPT !.Module[blk.f].blocks[blk.b].insts = Append(@, inst)]

\* the value of the instruction appended last to the block
LastInst(st, blk, t) == InstValue(blk, Len(BlockOf(st, blk).insts), t)

\* block.NewRet, block.NewBr, block.NewCondBr: set the block's terminator
SetTerm(st, blk, term) ==
    [st EXCEPT !.Module[blk.f].blocks[blk.b].term = term]

\* Func.NewBlock
FuncNewBlock(st, f, name) ==
    [st EXCEPT !.Module[f].blocks = Append(@, [name |-> name, insts |-> <<>>, term |-> NoTerm])]

\* Module.NewFunc
ModuleNewFunc(st, name, retType, params) ==
    [st EXCEPT !.Module = Append(@, [name |-> name, ret |-> retType,
                                     params |-> params, blocks |-> <<>>])]

----------------------------------------------------------------------------
(* The code generator helpers                                             *)

getFunc_First(module, name) == IF Len(module) > 0 THEN 1 ELSE 0

getFunc(module, name) ==
    IF \E f \in 1..Len(module) : module[f].name = name
    THEN CHOOSE f \in 1..Len(module) :
            /\ module[f].name = name
            /\ \A g \in 1..(f - 1) : module[g].name # name
    ELSE 0

getIRType(typ) ==
    CASE typ = Double -> TDouble
      [] typ = StringT -> Ptr(TI8)
      [] typ = Void -> TVoid
      [] OTHER -> TNil

getType(val) ==
    LET t == val.ty IN
    IF Head(t) = "array"
    THEN StringT  \* the only arrays are arrays of bytes
    ELSE IF t = TDouble THEN Double
    ELSE IF IsPtr(t)
         THEN IF ElemType(t) = TDouble THEN Double
              ELSE IF IsPtr(ElemType(t)) /\ ElemType(ElemType(t)) = TI8 THEN StringT
              ELSE Invalid
    ELSE Invalid

\* the block names: role + "_" + the first 8 hex digits of
\* md5(block.LocalName + role).  The digest stands for the text it hashes
\* (distinct texts have distinct digests); a text is the sequence of its
\* pieces.
getMD5Hash(text) == <<"md5">> \o text

newBlock(st, blk, name) ==
    LET hash == getMD5Hash(BlockOf(st, blk).name \o <<name>>)
        newName == <<name, "_">> \o hash
    IN FuncNewBlock(st, blk.f, newName)

\* the block newBlock has just appended
NewestBlock(st, f) == [f |-> f, b |-> Len(Blocks(st, f))]

\* results of the generator: the state it leaves, the value or block it
\* returns, and the error ("" is nil)
GenResult(st, val, blk, err) == [st |-> st, val |-> val, blk |-> blk, err |-> err]

PanicNilInterface == "panic: interface conversion: interface is nil, not value.Value"
PanicNilBlock == "panic: nil pointer dereference"
IsPanic(err) == err \in {PanicNilInterface, PanicNilBlock}

HasVar(st, f, name) == name \in DOMAIN st.namedValues[f]

load(st, blk, namedVar) ==
    LET t == getIRType(getType(namedVar))
        st1 == Emit(st, blk, [op |-> "load", ty |-> t, src |-> namedVar])
    IN GenResult(st1, LastInst(st1, blk, t), NilBlock, "")

retrieveVar_NoLoad(st, blk, name) ==
    IF blk = NilBlock
    THEN GenResult(st, IF HasVar(st, 0, name) THEN st.namedValues[0][name] ELSE NilValue,
                   NilBlock, "")
    ELSE IF HasVar(st, blk.f, name)
    THEN GenResult(st, st.namedValues[blk.f][name], NilBlock, "")
    ELSE IF HasVar(st, 0, name)
    THEN GenResult(st, st.namedValues[0][name], NilBlock, "")
    ELSE GenResult(st, NilValue, NilBlock, "could not identify var: " \o name)

retrieveVar(st, blk, name) ==
    IF blk = NilBlock
    THEN \* STEP 0: Top level var = retrieve const
         GenResult(st, IF HasVar(st, 0, name) THEN st.namedValues[0][name] ELSE NilValue,
                   NilBlock, "")
    ELSE IF HasVar(st, blk.f, name)
    THEN \* STEP 1: Check local block
         load(st, blk, st.namedValues[blk.f][name])
    ELSE IF HasVar(st, 0, name)
    THEN \* STEP 2: Check const
         GenResult(st, st.namedValues[0][name], NilBlock, "")
    ELSE GenResult(st, NilValue, NilBlock, "could not identify var: " \o name)

SetNamed(st, f, name, val) ==
    [st EXCEPT !.namedValues[f] = (name :> val) @@ @]

store_Unchecked(st, blk, name, val, namedVar) ==
    IF ~IsPtr(namedVar.ty)
    THEN GenResult(st, NilValue, NilBlock, "cannot write to variable " \o name)
    ELSE GenResult(Emit(st, blk, [op |-> "store", src |-> val, dst |-> namedVar]),
                   NilValue, NilBlock, "")

store(st, blk, name, val, namedVar) ==
    IF ~IsPtr(namedVar.ty)
    THEN GenResult(st, NilValue, NilBlock, "cannot write to variable " \o name)
    ELSE IF val.ty # ElemType(namedVar.ty)
    THEN GenResult(st, NilValue, NilBlock, "cannot store incompatible type for: " \o name)
    ELSE GenResult(Emit(st, blk, [op |-> "store", src |-> val, dst |-> namedVar]),
                   NilValue, NilBlock, "")

setVar_NoConstants(st, blk, name, val) ==
    IF blk = NilBlock
    THEN LET st1 == SetNamed(st, 0, name, val) IN
         IF ~IsConstant(val)
         THEN GenResult(st1, NilValue, NilBlock, name \o " is not equal to constant expression")
         ELSE GenResult(st1, NilValue, NilBlock, "")
    ELSE IF HasVar(st, blk.f, name)
    THEN store(st, blk, name, val, st.namedValues[blk.f][name])
    ELSE LET st1 == Emit(st, blk, [op |-> "alloca", ty |-> val.ty])
             newVar == LastInst(st1, blk, Ptr(val.ty))
             st2 == SetNamed(st1, blk.f, name, newVar)
         IN store(st2, blk, name, val, newVar)

setVar(st, blk, name, val) ==
    IF blk = NilBlock
    THEN \* STEP 0: Top level var = create global
         LET st1 == SetNamed(st, 0, name, val) IN
         IF ~IsConstant(val)
         THEN GenResult(st1, NilValue, NilBlock, name \o " is not equal to constant expression")
         ELSE GenResult(st1, NilValue, NilBlock, "")
    ELSE IF HasVar(st, blk.f, name)
    THEN \* STEP 1: Check if local var exists
         store(st, blk, name, val, st.namedValues[blk.f][name])
    ELSE IF HasVar(st, 0, name)
    THEN \* STEP 2: Check if global exists
         GenResult(st, NilValue, NilBlock, "cannot write to constant variable: " \o name)
    ELSE \* STEP 3: Create new local var
         LET st1 == Emit(st, blk, [op |-> "alloca", ty |-> val.ty])
             newVar == LastInst(st1, blk, Ptr(val.ty))
             st2 == SetNamed(st1, blk.f, name, newVar)
         IN store(st2, blk, name, val, newVar)

----------------------------------------------------------------------------
(* CodeGen of the expressions (ast.go)                                    *)

handleDoubleOps(st, blk, op, leftValue, rightValue) ==
    LET arith(name) ==
            LET st1 == Emit(st, blk, [op |-> name, x |-> leftValue, y |-> rightValue])
            IN GenResult(st1, LastInst(st1, blk, leftValue.ty), NilBlock, "")
        compare(pred) ==
            LET st1 == Emit(st, blk, [op |-> "fcmp", pred |-> pred,
                                      x |-> leftValue, y |-> rightValue])
                cmp == LastInst(st1, blk, TI1)
                st2 == Emit(st1, blk, [op |-> "uitofp", x |-> cmp])
            IN GenResult(st2, LastInst(st2, blk, TDouble), NilBlock, "")
    IN
    CASE op = Ord["*"] -> arith("fmul")
      [] op = Ord["+"] -> arith("fadd")
      [] op = Ord["-"] -> arith("fsub")
      [] op = Ord["<"] -> compare("olt")
      [] op = Ord[">"] -> compare("ogt")
      [] op = Ord["="] -> compare("oeq")
      [] op = Ord["!"] -> compare("one")
      [] OTHER -> GenResult(st, NilValue, NilBlock, "unsupported operator for double: " \o RuneText(op))

handleStringOps(st, blk, op, leftValue, rightValue) ==
    GenResult(st, NilValue, NilBlock, "unsupported operator for double: " \o RuneText(op))

\* The CodeGen methods call each other through Gen, which dispatches on the
\* name of the function called; x is the argument list built so far, for
\* the argument loop.
RECURSIVE Gen(_, _, _, _, _)

\* the argument loop of CallExprAST.CodeGen
CodeGenArgs(st, blk, astArgs, args) ==
    IF astArgs = <<>> THEN [st |-> st, args |-> args, err |-> ""]
    ELSE LET gen == Gen("CodeGenExpr", st, blk, Head(astArgs), <<>>) IN
         IF gen.err # "" THEN [st |-> gen.st, args |-> args, err |-> gen.err]
         ELSE IF gen.val = NilValue
         THEN [st |-> gen.st, args |-> args, err |-> PanicNilInterface]
         ELSE Gen("CodeGenArgs", gen.st, blk, Tail(astArgs), Append(args, gen.val))

NumberExprCodeGen(st, blk, n) ==
    GenResult(st, ConstFloat(n.val), NilBlock, "")

StringExprCodeGen(st, blk, s) ==
    IF blk = NilBlock THEN GenResult(st, NilValue, NilBlock, PanicNilBlock)
    ELSE
    LET charArray == ConstCharArray(s.val)
        st1 == Emit(st, blk, [op |-> "alloca", ty |-> charArray.ty])
        x == LastInst(st1, blk, Ptr(charArray.ty))
        st2 == Emit(st1, blk, [op |-> "store", src |-> charArray, dst |-> x])
        st3 == Emit(st2, blk, [op |-> "bitcast", x |-> x, ty |-> TI8Ptr])
    IN GenResult(st3, LastInst(st3, blk, TI8Ptr), NilBlock, "")

VariableExprCodeGen(st, blk, v) == retrieveVar(st, blk, v.name)

CallExprCodeGen(st, blk, c) ==
    LET theFunc == getFunc(st.Module, c.func) IN
    IF theFunc = 0
    THEN GenResult(st, NilValue, NilBlock, "could not find function: " \o c.func)
    ELSE LET a == Gen("CodeGenArgs", st, blk, c.args, <<>>) IN
         IF a.err # "" THEN GenResult(a.st, NilValue, NilBlock, a.err)
         ELSE IF blk = NilBlock
         THEN GenResult(a.st, NilValue, NilBlock, PanicNilBlock)
         ELSE LET st1 == Emit(a.st, blk, [op |-> "call", callee |-> theFunc,
                                           args |-> a.args])
              IN GenResult(st1, LastInst(st1, blk, st.Module[theFunc].ret),
                           NilBlock, "")

BinaryExprCodeGen_AnyLevel(st, blk, b) ==
    LET l == Gen("CodeGenExpr", st, blk, b.lhs, <<>>) IN
    IF l.err # "" THEN l
    ELSE
    LET r == Gen("CodeGenExpr", l.st, blk, b.rhs, <<>>) IN
    IF r.err # "" THEN r
    ELSE IF getType(l.val) # getType(r.val)
    THEN GenResult(r.st, NilValue, NilBlock, "types in binary expression must match")
    ELSE GenResult(r.st, NilValue, NilBlock, "can not use binary expression at top level")

BinaryExprCodeGen(st, blk, b) ==
    IF blk = NilBlock
    THEN GenResult(st, NilValue, NilBlock, "can not use binary expression at top level")
    ELSE
    LET l == Gen("CodeGenExpr", st, blk, b.lhs, <<>>) IN
    IF l.err # "" THEN l
    ELSE
    LET r == Gen("CodeGenExpr", l.st, blk, b.rhs, <<>>) IN
    IF r.err # "" THEN r
    ELSE IF getType(l.val) # getType(r.val)
    THEN GenResult(r.st, NilValue, NilBlock, "types in binary expression must match")
    ELSE CASE getType(l.val) = Double -> handleDoubleOps(r.st, blk, b.op, l.val, r.val)
           [] getType(l.val) = StringT -> handleStringOps(r.st, blk, b.op, l.val, r.val)
           [] OTHER -> GenResult(r.st, NilValue, NilBlock,
                                 "unexpected type in binary expression")

CodeGenExpr(st, blk, e) ==
    CASE e.kind = "Num" -> NumberExprCodeGen(st, blk, e)
      [] e.kind = "Str" -> StringExprCodeGen(st, blk, e)
      [] e.kind = "Var" -> VariableExprCodeGen(st, blk, e)
      [] e.kind = "Call" -> CallExprCodeGen(st, blk, e)
      [] e.kind = "Bin" -> BinaryExprCodeGen(st, blk, e)

IsExprAST(a) == a.kind \in {"Num", "Str", "Var", "Call", "Bin"}

----------------------------------------------------------------------------
(* CodeGen of the statements and declarations (ast.go)                    *)

AssignmentCodeGen(st, blk, a) ==
    LET gen == Gen("CodeGenExpr", st, blk, a.expr, <<>>) IN
    IF gen.err # "" THEN gen
    ELSE IF gen.val = NilValue
    THEN GenResult(gen.st, NilValue, NilBlock, PanicNilInterface)
    ELSE setVar(gen.st, blk, a.name, gen.val)

ReturnCodeGen(st, blk, r) ==
    LET gen == Gen("CodeGenExpr", st, blk, r.expr, <<>>) IN
    IF gen.err # "" THEN gen
    ELSE IF gen.val = NilValue
    THEN GenResult(gen.st, NilValue, NilBlock, PanicNilInterface)
    ELSE IF blk = NilBlock
    THEN GenResult(gen.st, NilValue, NilBlock, PanicNilBlock)
    ELSE GenResult(SetTerm(gen.st, blk, [op |-> "ret", x |-> gen.val]),
                   NilValue, NilBlock, "")

BranchIfOpen_Never(st, cur, target) == st

\* "if cur.Term == nil { cur.NewBr(target) }"
BranchIfOpen_Always(st, cur, target) == SetTerm(st, cur, [op |-> "br", target |-> target.b])

BranchIfOpen(st, cur, target) ==
    IF BlockOf(st, cur).term = NoTerm
    THEN SetTerm(st, cur, [op |-> "br", target |-> target.b])
    ELSE st

IfCodeGen(st, blk, i) ==
    LET st1 == newBlock(st, blk, "if-true-block")
        ifBlock == NewestBlock(st1, blk.f)
        st2 == newBlock(st1, blk, "if-after-block")
        afterBlock == NewestBlock(st2, blk.f)
        gen == Gen("CodeGenExpr", st2, blk, i.cond, <<>>)
    IN
    IF gen.err # "" THEN gen
    ELSE
    LET st3 == Emit(gen.st, blk, [op |-> "fcmp", pred |-> "ogt",
                                  x |-> gen.val, y |-> ConstFloat(0)])
        condVal == LastInst(st3, blk, TI1)
        ifCur == Gen("genStatements", st3, ifBlock, i.ifBody, <<>>)
    IN
    IF ifCur.err # "" THEN ifCur
    ELSE
    LET st4 == BranchIfOpen(ifCur.st, ifCur.blk, afterBlock) IN
    IF i.elseBody # <<>>
    THEN LET st5 == newBlock(st4, blk, "if-false-block")
             elseBlock == NewestBlock(st5, blk.f)
             elseCur == Gen("genStatements", st5, elseBlock, i.elseBody, <<>>)
         IN
         IF elseCur.err # "" THEN elseCur
         ELSE LET st6 == BranchIfOpen(elseCur.st, elseCur.blk, afterBlock) IN
              GenResult(SetTerm(st6, blk, [op |-> "condbr", cond |-> condVal,
                                           t |-> ifBlock.b, f |-> elseBlock.b]),
                        NilValue, afterBlock, "")
    ELSE \* No else
         GenResult(SetTerm(st4, blk, [op |-> "condbr", cond |-> condVal,
                                      t |-> ifBlock.b, f |-> afterBlock.b]),
                   NilValue, afterBlock, "")

WhileCodeGen_CondInBlock(st, blk, w) ==
    LET st1 == newBlock(st, blk, "while-test")
        testBlock == NewestBlock(st1, blk.f)
        st2 == newBlock(st1, blk, "while-loop")
        loopBlock == NewestBlock(st2, blk.f)
        st3 == newBlock(st2, blk, "while-after")
        afterBlock == NewestBlock(st3, blk.f)
        gen == Gen("CodeGenExpr", st3, blk, w.cond, <<>>)
    IN
    IF gen.err # "" THEN gen
    ELSE
    LET st4 == Emit(gen.st, blk, [op |-> "fcmp", pred |-> "ogt",
                                  x |-> gen.val, y |-> ConstFloat(0)])
        condVal == LastInst(st4, blk, TI1)
        st5 == SetTerm(st4, testBlock, [op |-> "condbr", cond |-> condVal,
                                        t |-> loopBlock.b, f |-> afterBlock.b])
        st6 == SetTerm(st5, blk, [op |-> "br", target |-> testBlock.b])
        loopCur == Gen("genStatements", st6, loopBlock, w.body, <<>>)
    IN
    IF loopCur.err # "" THEN loopCur
    ELSE GenResult(BranchIfOpen(loopCur.st, loopCur.blk, testBlock),
                   NilValue, afterBlock, "")

WhileCodeGen(st, blk, w) ==
    LET st1 == newBlock(st, blk, "while-test")
        testBlock == NewestBlock(st1, blk.f)
        st2 == newBlock(st1, blk, "while-loop")
        loopBlock == NewestBlock(st2, blk.f)
        st3 == newBlock(st2, blk, "while-after")
        afterBlock == NewestBlock(st3, blk.f)
        gen == Gen("CodeGenExpr", st3, testBlock, w.cond, <<>>)
    IN
    IF gen.err # "" THEN gen
    ELSE
    LET st4 == Emit(gen.st, testBlock, [op |-> "fcmp", pred |-> "ogt",
                                        x |-> gen.val, y |-> ConstFloat(0)])
        condVal == LastInst(st4, testBlock, TI1)
        st5 == SetTerm(st4, testBlock, [op |-> "condbr", cond |-> condVal,
                                        t |-> loopBlock.b, f |-> afterBlock.b])
        st6 == SetTerm(st5, blk, [op |-> "br", target |-> testBlock.b])
        loopCur == Gen("genStatements", st6, loopBlock, w.body, <<>>)
    IN
    IF loopCur.err # "" THEN loopCur
    ELSE GenResult(BranchIfOpen(loopCur.st, loopCur.blk, testBlock),
                   NilValue, afterBlock, "")

\* StatementAST.CodeGen: dispatch on the statement it wraps
CodeGen(st, blk, a) ==
    CASE a.kind = "Assign" -> AssignmentCodeGen(st, blk, a)
      [] a.kind = "Return" -> ReturnCodeGen(st, blk, a)
      [] a.kind = "If" -> IfCodeGen(st, blk, a)
      [] a.kind = "While" -> WhileCodeGen(st, blk, a)
      [] OTHER -> Gen("CodeGenExpr", st, blk, a, <<>>)

\* the block returned is the current block after the statements
genStatements(st, blk, stmts) ==
    IF stmts = <<>> THEN GenResult(st, NilValue, blk, "")
    ELSE LET gen == Gen("CodeGen", st, blk, Head(stmts), <<>>) IN
         IF gen.err # "" THEN GenResult(gen.st, NilValue, NilBlock, gen.err)
         ELSE Gen("genStatements", gen.st,
                  IF gen.blk # NilBlock THEN gen.blk ELSE blk, Tail(stmts), <<>>)

PrototypeCodeGen(st, p) ==
    LET irParams == [k \in 1..Len(p.params) |->
                        [name |-> p.params[k].name, ty |-> getIRType(p.params[k].type)]]
        st1 == ModuleNewFunc(st, p.name, getIRType(p.ret), irParams)
    IN [st |-> st1, func |-> Len(st1.Module), err |-> ""]

\* the loop of FunctionAST.CodeGen that binds the parameters
RECURSIVE BindParams(_, _, _, _)
BindParams(st, entry, params, k) ==
    IF k > Len(params) THEN GenResult(st, NilValue, NilBlock, "")
    ELSE LET r == setVar(st, entry, params[k].name,
                         ParamValue(entry.f, params[k].name, params[k].ty))
         IN IF r.err # "" THEN r ELSE BindParams(r.st, entry, params, k + 1)

\* FunctionAST.CodeGen up to the statements: the function (declared before
\* or created now), its entry block, its fresh table, its parameters
FunctionEntry(st, proto) ==
    LET found == getFunc(st.Module, proto.name)
        p == IF found = 0 THEN PrototypeCodeGen(st, proto)
             ELSE [st |-> st, func |-> found, err |-> ""]
        theFunc == p.func
        st1 == FuncNewBlock(p.st, theFunc, <<"entry">>)
        entry == NewestBlock(st1, theFunc)
        st2 == [st1 EXCEPT !.namedValues =
                    [g \in DOMAIN @ \cup {theFunc} |-> IF g = theFunc THEN << >> ELSE @[g]]]
        b == BindParams(st2, entry, st2.Module[theFunc].params, 1)
    IN GenResult(b.st, NilValue, entry, b.err)

FunctionExit_Lenient(st, blk, proto) == GenResult(st, NilValue, NilBlock, "")

\* FunctionAST.CodeGen after the statements: the check of the terminator of
\* the current block
FunctionExit(st, blk, proto) ==
    IF BlockOf(st, blk).term = NoTerm
    THEN IF proto.ret # Void
         THEN GenResult(st, NilValue, NilBlock,
                        "non-void function: " \o proto.name \o " needs return")
         ELSE GenResult(SetTerm(st, blk, [op |-> "ret", x |-> NilValue]),
                        NilValue, NilBlock, "")
    ELSE GenResult(st, NilValue, NilBlock, "")

FunctionCodeGen(st, f) ==
    LET b == FunctionEntry(st, f.proto) IN
    IF b.err # "" THEN GenResult(b.st, NilValue, NilBlock, b.err)
    ELSE
    LET cur == Gen("genStatements", b.st, b.blk, f.body, <<>>) IN
    IF cur.err # "" THEN cur
    ELSE FunctionExit(cur.st, cur.blk, f.proto)

\* AST.CodeGen(nil) of a top-level declaration
DeclCodeGen(st, a) ==
    CASE a.kind = "Func" -> FunctionCodeGen(st, a)
      [] a.kind = "Proto" -> LET p == PrototypeCodeGen(st, a)
                             IN GenResult(p.st, NilValue, NilBlock, p.err)
      [] a.kind = "Assign" -> AssignmentCodeGen(st, NilBlock, a)

Gen(fn, st, blk, a, x) ==
    CASE fn = "CodeGenExpr" -> CodeGenExpr(st, blk, a)
      [] fn = "CodeGenArgs" -> CodeGenArgs(st, blk, a, x)
      [] fn = "CodeGen" -> CodeGen(st, blk, a)
      [] fn = "genStatements" -> genStatements(st, blk, a)
      [] fn = "DeclCodeGen" -> DeclCodeGen(st, a)

----------------------------------------------------------------------------
(* Parser.Shell: one action per case of its switch.  A case parses a      *)
(* declaration from the token stream and lowers it.                       *)

State == [Module |-> Module, namedValues |-> namedValues]

\* the tail of the loop body: log.Fatalf on a parse error, else
\* result.CodeGen(nil) and log.Fatalf on its error
ShellFinish(r) ==
    /\ tpos' = r.pos
    /\ parsed' = r.ast
    /\ IF r.err # ""
       THEN /\ shStatus' = "fatal"
            /\ lastErr' = r.err
            /\ UNCHANGED <<genVars, last>>
       ELSE \E gen \in {Gen("DeclCodeGen", State, NilBlock, r.ast, <<>>)} :
            /\ Module' = gen.st.Module
            /\ namedValues' = gen.st.namedValues
            /\ last' = r.ast
            /\ lastErr' = gen.err
            /\ shStatus' = IF gen.err = "" THEN "running"
                           ELSE IF IsPanic(gen.err) THEN "panic" ELSE "fatal"
    /\ UNCHANGED <<lexVars, tokens, output, curBlock, curProto, ndecls, nstmts>>

ShellStart ==
    /\ shStatus = "start"
    /\ tpos' = 1
    /\ shStatus' = "running"
    /\ UNCHANGED <<lexVars, tokens, parsed, genVars, lastErr, output, funcVars>>

ShellEOF_Again ==
    /\ shStatus = "running"
    /\ Cur(tokens, tpos) = TokEOF
    /\ output' = Append(output, Module)
    /\ UNCHANGED <<lexVars, parseVars, genVars, shStatus, lastErr, funcVars>>

ShellEOF ==
    /\ shStatus = "running"
    /\ Cur(tokens, tpos) = TokEOF
    /\ output' = Append(output, Module)
    /\ shStatus' = "done"
    /\ UNCHANGED <<lexVars, parseVars, genVars, lastErr, funcVars>>

ShellDef ==
    /\ shStatus = "running"
    /\ Cur(tokens, tpos) = TokDef
    /\ \E r \in {Parse("parseFuncDef", tokens, tpos, 0, NoAST)} : ShellFinish(r)

ShellExtern ==
    /\ shStatus = "running"
    /\ Cur(tokens, tpos) = TokExtern
    /\ \E r \in {Parse("parseExternFunc", tokens, tpos, 0, NoAST)} : ShellFinish(r)

ShellConst ==
    /\ shStatus = "running"
    /\ Cur(tokens, tpos) = TokConst
    /\ \E r \in {Parse("parseAssignment", tokens, tpos, 0, NoAST)} : ShellFinish(r)

ShellSemicolon ==
    /\ shStatus = "running"
    /\ Cur(tokens, tpos) = Ord[";"]
    /\ tpos' = tpos + 1
    /\ UNCHANGED <<lexVars, tokens, parsed, genVars, shellVars, funcVars>>

ShellUnknown ==
    /\ shStatus = "running"
    /\ Cur(tokens, tpos) \notin {TokEOF, TokDef, TokExtern, TokConst, Ord[";"]}
    /\ shStatus' = "fatal"
    /\ lastErr' = "unknown token when parsing top level: " \o RuneText(Cur(tokens, tpos))
    /\ UNCHANGED <<lexVars, parseVars, genVars, output, funcVars>>

----------------------------------------------------------------------------
(* The programs the shell is run on: up to MaxProgram pieces, each a      *)
(* declaration, a stray ';' or a stray token.                             *)

MaxProgram == 2

DoubleParam(n) == <<Kw(TokDouble), Id(n)>>

SrcAdd ==    \* def double add(double a, double b) { return a + b; }
    <<Kw(TokDef), Kw(TokDouble), Id("add"), P("(")>> \o DoubleParam("a") \o <<P(",")>>
    \o DoubleParam("b") \o <<P(")"), P("{"), Kw(TokReturn), Id("a"), P("+"), Id("b"),
    P(";"), P("}")>>

SrcLoop ==   \* def void loop() { set i = 0.0; while i < 10.0 { set i = i + 1.0; }; }
    <<Kw(TokDef), Kw(TokVoid), Id("loop"), P("("), P(")"), P("{"),
      Kw(TokSet), Id("i"), P("="), Num(0), P(";"),
      Kw(TokWhile), Id("i"), P("<"), Num(10), P("{"),
      Kw(TokSet), Id("i"), P("="), Id("i"), P("+"), Num(1), P(";"), P("}"), P(";"),
      P("}")>>

CmpHead ==   \* def double cmp(double a, double b) { if a > b { return a; } else { return b; }
    <<Kw(TokDef), Kw(TokDouble), Id("cmp"), P("(")>> \o DoubleParam("a") \o <<P(",")>>
    \o DoubleParam("b") \o <<P(")"), P("{"),
      Kw(TokIf), Id("a"), P(">"), Id("b"), P("{"), Kw(TokReturn), Id("a"), P(";"), P("}"),
      Kw(TokElse), P("{"), Kw(TokReturn), Id("b"), P(";"), P("}")>>

SrcCmp == CmpHead \o <<P("}")>>            \* ... }    (scenario C of the spec)

SrcCmpSemi == CmpHead \o <<P(";"), P("}")>>   \* ... ; }

SrcGetX ==   \* def double getX() { return x; }
    <<Kw(TokDef), Kw(TokDouble), Id("getX"), P("("), P(")"), P("{"),
      Kw(TokReturn), Id("x"), P(";"), P("}")>>

SrcSetX ==   \* def void setX() { set x = 6.0; }
    <<Kw(TokDef), Kw(TokVoid), Id("setX"), P("("), P(")"), P("{"),
      Kw(TokSet), Id("x"), P("="), Num(6), P(";"), P("}")>>

SrcCallAdd ==   \* def double three() { return add(1.0, 2.0); }
    <<Kw(TokDef), Kw(TokDouble), Id("three"), P("("), P(")"), P("{"),
      Kw(TokReturn), Id("add"), P("("), Num(1), P(","), Num(2), P(")"), P(";"), P("}")>>

SrcExternAdd ==   \* extern double add(double a, double b);
    <<Kw(TokExtern), Kw(TokDouble), Id("add"), P("(")>> \o DoubleParam("a") \o <<P(",")>>
    \o DoubleParam("b") \o <<P(")"), P(";")>>

SrcConstX == <<Kw(TokConst), Id("x"), P("="), Num(5), P(";")>>     \* const x = 5.0;

SrcConstY == <<Kw(TokConst), Id("y"), P("="), Id("z"), P(";")>>    \* const y = z;

SrcStray == <<Id("x")>>                                            \* x

Pieces ==
    { SrcAdd, SrcLoop, SrcCmp, SrcCmpSemi, SrcGetX, SrcSetX, SrcCallAdd,
      SrcExternAdd, SrcConstX, SrcConstY, SrcStray }

RECURSIVE Programs(_)
Programs(n) ==
    IF n = 0 THEN {<<>>}
    ELSE LET S == Programs(n - 1) IN S \cup {s \o c : s \in S, c \in Pieces}

\* the state of the variables a specification does not use
IdleLexer ==
    /\ input = <<>> /\ rpos = 0 /\ CurrTok = 0 /\ String = <<>>
    /\ NumVal = <<0, 0>> /\ lexStatus = "ok"

IdleParser == tokens = <<>> /\ tpos = 0 /\ parsed = NoAST

NoDecl == [kind |-> "none"]

IdleFunction ==
    curBlock = NilBlock /\ curProto = NoAST /\ last = NoDecl /\ ndecls = 0 /\ nstmts = 0

\* var Module = ir.NewModule(); var namedValues = {nil: {}}
InitGenerator ==
    /\ Module = <<>>
    /\ namedValues = [f \in {0} |-> << >>]

IdleShell == shStatus = "start" /\ lastErr = "" /\ output = <<>>

IdleGenerator == InitGenerator /\ IdleShell /\ IdleFunction

Init ==
    /\ IdleLexer
    /\ tokens \in Programs(MaxProgram)
    /\ tpos = 0
    /\ parsed = NoAST
    /\ InitGenerator
    /\ IdleShell
    /\ IdleFunction

Next ==
    \/ ShellStart
    \/ ShellEOF
    \/ ShellDef
    \/ ShellExtern
    \/ ShellConst
    \/ ShellSemicolon
    \/ ShellUnknown

Spec == Init /\ [][Next]_vars

----------------------------------------------------------------------------
(* The lexer's inputs: every stream over a small alphabet, and every      *)
(* keyword alone, after a blank, and before a byte that ends or extends   *)
(* the word.                                                              *)

MaxLexLen == 4

LexAlphabet == {Ord[c] : c \in {"i", "f", "1", ".", " ", "/", "*", "\"", "}"}}

RECURSIVE StreamsUpTo(_)
StreamsUpTo(n) ==
    IF n = 0 THEN {<<>>}
    ELSE LET S == StreamsUpTo(n - 1) IN
         S \cup {Append(s, c) : s \in {t \in S : Len(t) = n - 1}, c \in LexAlphabet}

KeywordSpellings ==
    { <<"d", "e", "f">>, <<"e", "x", "t", "e", "r", "n">>, <<"s", "e", "t">>,
      <<"c", "o", "n", "s", "t">>, <<"r", "e", "t", "u", "r", "n">>,
      <<"i", "f">>, <<"e", "l", "s", "e">>, <<"w", "h", "i", "l", "e">>,
      <<"s", "t", "r", "i", "n", "g">>, <<"d", "o", "u", "b", "l", "e">>,
      <<"v", "o", "i", "d">> }

KeywordStreams ==
    { pre \o Bytes(w) \o suf :
        pre \in {<<>>, <<32>>},
        w \in KeywordSpellings,
        suf \in {<<>>, <<32>>, <<59>>, <<120>>, <<49, 32>>, <<95, 32>>} }

\* /**/ and /*i*/
Comments == {Bytes(<<"/", "*", "*", "/">>), Bytes(<<"/", "*", "i", "*", "/">>)}

\* one or two comments, with and without whitespace around them, before
\* nothing, `} ` or `i `
CommentStreams ==
    { pre \o c1 \o mid \o c2 \o suf :
        pre \in {<<>>, <<32>>},
        c1 \in Comments,
        mid \in {<<>>, <<32>>},
        c2 \in Comments \cup {<<>>},
        suf \in {<<>>, <<125, 32>>, <<105, 32>>} }

LexInputs == StreamsUpTo(MaxLexLen) \cup KeywordStreams \cup CommentStreams

InitLex ==
    /\ input \in LexInputs
    /\ rpos = 0
    /\ CurrTok = 0
    /\ String = <<>>
    /\ NumVal = <<0, 0>>
    /\ lexStatus = "ok"
    /\ IdleParser /\ IdleGenerator

NextLex == NextToken

SpecLex == InitLex /\ [][NextLex]_vars

----------------------------------------------------------------------------
(* The parser on expressions: the token stream is operands separated by   *)
(* binary operators, and the one action calls parseExpression on it.      *)

MaxOps == 3

Operators == {Ord[c] : c \in {"=", "!", "<", ">", "+", "-", "*"}}

\* the k-th operand of a stream is the number k + 1: 2 op 3 op 4 ...
Operand(k) == Num(k + 1)

RECURSIVE ExprStreams(_)
ExprStreams(n) ==
    IF n = 0 THEN {<<Operand(1)>>}
    ELSE LET S == ExprStreams(n - 1) IN
         S \cup {s \o <<Tok(op, "", 0), Operand(n + 1)>> :
                    s \in {t \in S : Len(t) = 2 * n - 1}, op \in Operators}

InitParse ==
    /\ IdleLexer
    /\ tokens \in ExprStreams(MaxOps)
    /\ tpos = 0
    /\ parsed = NoAST
    /\ IdleGenerator

\* p.lexer.NextToken(); p.parseExpression()
ParseExpression ==
    /\ tpos = 0
    /\ \E r \in {Parse("parseExpression", tokens, 1, 0, NoAST)} :
        /\ parsed' = r.ast
        /\ tpos' = r.pos
        /\ lastErr' = r.err
    /\ UNCHANGED <<lexVars, tokens, genVars, shStatus, output, funcVars>>

NextParse == ParseExpression

SpecParse == InitParse /\ [][NextParse]_vars

----------------------------------------------------------------------------
(* The generator on declarations, one statement of a function body at a   *)
(* time: FunctionAST.CodeGen is BeginFunction, one GenStatement for each  *)
(* iteration of the loop of genStatements, and EndFunction.  A failure    *)
(* ends the run, as log.Fatalf does in Parser.Shell.                      *)

MaxDecls == 2
MaxStmts == 2

\* double f(double a)    void g()    string s()
ProtoF == PrototypeAST("f", <<Param("a", Double)>>, Double)
ProtoG == PrototypeAST("g", <<>>, Void)
ProtoS == PrototypeAST("s", <<>>, StringT)

Prototypes == {ProtoF, ProtoG, ProtoS}

One == NumberExprAST(1)
VarA == VariableExprAST("a")
RetOne == ReturnAST(One)
SetA == AssignmentAST("a", One)

\* const x = 5.0;   const a = 1.0;   const y = z;   const x = g();
\* const x = h() + 1.0;
Constants ==
    { AssignmentAST("x", NumberExprAST(5)), AssignmentAST("a", One),
      AssignmentAST("y", VariableExprAST("z")),
      AssignmentAST("x", CallExprAST("g", <<>>)),
      AssignmentAST("x", BinaryExprAST(CallExprAST("h", <<>>), Ord["+"], One)) }

Statements ==
    { SetA,                                                  \* set a = 1.0;
      AssignmentAST("x", NumberExprAST(6)),                  \* set x = 6.0;
      AssignmentAST("x", CallExprAST("g", <<>>)),            \* set x = g();
      AssignmentAST("a", CallExprAST("s", <<>>)),            \* set a = s();
      BinaryExprAST(StringExprAST("t"), Ord["+"], StringExprAST("t")),
                                                             \* "t" + "t";
      RetOne,                                                \* return 1.0;
      ReturnAST(VarA),                                       \* return a;
      ReturnAST(BinaryExprAST(CallExprAST("s", <<>>), Ord["+"], One)),
                                                             \* return s() + 1.0;
      BinaryExprAST(One, Ord["+"], StringExprAST("t")),      \* 1.0 + "t";
      CallExprAST("f", <<One>>),                             \* f(1.0);
      CallExprAST("h", <<>>),                                \* h();
      ReturnAST(VariableExprAST("x")),                       \* return x;
      IfAST(VarA, <<ReturnAST(VarA)>>, <<RetOne>>),
                                      \* if a { return a; } else { return 1.0; };
      IfAST(One, <<SetA>>, <<>>),                            \* if 1.0 { set a = 1.0; };
      WhileAST(VarA, <<AssignmentAST("a", BinaryExprAST(VarA, Ord["-"], One))>>),
                                      \* while a { set a = a - 1.0; };
      WhileAST(One, <<IfAST(One, <<RetOne>>, <<>>)>>),
                                      \* while 1.0 { if 1.0 { return 1.0; }; };
      IfAST(One, <<WhileAST(One, <<RetOne>>)>>, <<IfAST(One, <<SetA>>, <<RetOne>>)>>)
                 \* if 1.0 { while 1.0 { return 1.0; }; }
                 \* else { if 1.0 { set a = 1.0; } else { return 1.0; }; };
    }

EndOfBody == [kind |-> "end"]

IsStatement(a) == a.kind \in {"Assign", "Return", "If", "While", "Num", "Str", "Var", "Call", "Bin"}

InitGen ==
    /\ IdleLexer
    /\ IdleParser
    /\ InitGenerator
    /\ shStatus = "running" /\ lastErr = "" /\ output = <<>>
    /\ IdleFunction

\* what a step of the generator leaves: the tables, the error, and the run
\* ended if there is one
GenFinish(gen) ==
    /\ Module' = gen.st.Module
    /\ namedValues' = gen.st.namedValues
    /\ lastErr' = gen.err
    /\ shStatus' = IF gen.err = "" THEN "running"
                   ELSE IF IsPanic(gen.err) THEN "panic" ELSE "fatal"

\* case lexer.TokConst of Shell, after the parse
GenConst ==
    /\ shStatus = "running" /\ curBlock = NilBlock /\ ndecls < MaxDecls
    /\ \E a \in Constants :
        /\ \E gen \in {Gen("DeclCodeGen", State, NilBlock, a, <<>>)} : GenFinish(gen)
        /\ last' = a
    /\ ndecls' = ndecls + 1
    /\ UNCHANGED <<lexVars, parseVars, output, curBlock, curProto, nstmts>>

\* case lexer.TokExtern of Shell, after the parse
GenExtern ==
    /\ shStatus = "running" /\ curBlock = NilBlock /\ ndecls < MaxDecls
    /\ \E p \in Prototypes :
        /\ \E gen \in {Gen("DeclCodeGen", State, NilBlock, p, <<>>)} : GenFinish(gen)
        /\ last' = p
    /\ ndecls' = ndecls + 1
    /\ UNCHANGED <<lexVars, parseVars, output, curBlock, curProto, nstmts>>

\* case lexer.TokDef of Shell, after the parse: FunctionAST.CodeGen up to
\* the call of genStatements
BeginFunction ==
    /\ shStatus = "running" /\ curBlock = NilBlock
    /\ ndecls < MaxDecls /\ nstmts < MaxStmts
    /\ \E p \in Prototypes :
        /\ \E gen \in {FunctionEntry(State, p)} :
            /\ GenFinish(gen)
            /\ curBlock' = IF gen.err = "" THEN gen.blk ELSE NilBlock
        /\ curProto' = p
        /\ last' = p
    /\ ndecls' = ndecls + 1
    /\ UNCHANGED <<lexVars, parseVars, output, nstmts>>

\* one iteration of the loop of genStatements
GenStatement ==
    /\ shStatus = "running" /\ curBlock # NilBlock /\ nstmts < MaxStmts
    /\ \E stmt \in Statements :
        /\ \E gen \in {Gen("genStatements", State, curBlock, <<stmt>>, <<>>)} :
            /\ GenFinish(gen)
            /\ curBlock' = IF gen.err = "" THEN gen.blk ELSE curBlock
        /\ last' = stmt
    /\ nstmts' = nstmts + 1
    /\ UNCHANGED <<lexVars, parseVars, output, curProto, ndecls>>

\* FunctionAST.CodeGen after genStatements; a body has a statement at least
EndFunction ==
    /\ shStatus = "running" /\ curBlock # NilBlock /\ IsStatement(last)
    /\ \E gen \in {FunctionExit(State, curBlock, curProto)} :
        /\ GenFinish(gen)
        /\ curBlock' = IF gen.err = "" THEN NilBlock ELSE curBlock
    /\ last' = EndOfBody
    /\ UNCHANGED <<lexVars, parseVars, output, curProto, ndecls, nstmts>>

NextGen ==
    \/ GenConst
    \/ GenExtern
    \/ BeginFunction
    \/ GenStatement
    \/ EndFunction

SpecGen == InitGen /\ [][NextGen]_vars

\* ---- parseStatementBlock applied to streams of statements ----

MaxBlockStmts == 2

\* set a = 1.0   return a   a
SimpleStatements ==
    { <<Kw(TokSet), Id("a"), P("="), Num(1)>>, <<Kw(TokReturn), Id("a")>>, <<Id("a")>> }

\* if a { return a; }   if a { return a; } else { return 1.0; }   while a { set a = 1.0; }
CompoundStatements ==
    { <<Kw(TokIf), Id("a"), P("{"), Kw(TokReturn), Id("a"), P(";"), P("}")>>,
      <<Kw(TokIf), Id("a"), P("{"), Kw(TokReturn), Id("a"), P(";"), P("}"),
        Kw(TokElse), P("{"), Kw(TokReturn), Num(1), P(";"), P("}")>>,
      <<Kw(TokWhile), Id("a"), P("{"), Kw(TokSet), Id("a"), P("="), Num(1), P(";"), P("}")>> }

WithSemicolon(S) == {s \o <<P(";")>> : s \in S}

\* the runs of one to n statements drawn from S
RECURSIVE StatementRuns(_, _)
StatementRuns(S, n) ==
    IF n = 1 THEN S
    ELSE LET R == StatementRuns(S, n - 1) IN R \cup {r \o s : r \in R, s \in S}

BlocksOf(S) == {<<P("{")>> \o r \o <<P("}")>> : r \in StatementRuns(S, MaxBlockStmts)}

\* every statement with and without a following ;
BlockStreams ==
    BlocksOf(SimpleStatements \cup CompoundStatements
             \cup WithSemicolon(SimpleStatements \cup CompoundStatements))

InitBlock ==
    /\ IdleLexer
    /\ tokens \in BlockStreams
    /\ tpos = 0
    /\ parsed = NoAST
    /\ IdleGenerator

\* p.lexer.NextToken(); p.parseStatementBlock()
ParseStatementBlock ==
    /\ tpos = 0
    /\ \E r \in {Parse("parseStatementBlock", tokens, 1, 0, NoAST)} :
        /\ parsed' = r.ast
        /\ tpos' = r.pos
        /\ lastErr' = r.err
    /\ UNCHANGED <<lexVars, tokens, genVars, shStatus, output, funcVars>>

NextBlock == ParseStatementBlock

SpecBlock == InitBlock /\ [][NextBlock]_vars

----------------------------------------------------------------------------
(* Properties                                                             *)

Terminators == {"ret", "br", "condbr"}

AllTerminated ==
    \A f \in 1..Len(Module) : \A b \in 1..Len(Module[f].blocks) :
        /\ Module[f].blocks[b].term # NoTerm
        /\ Module[f].blocks[b].term.op \in Terminators

\* C1: when no function is being lowered and no lowering has failed (every
\* FunctionAST.CodeGen so far has returned successfully), every block of
\* every function of the module has its terminator: a return, a branch or a
\* conditional branch.
C1_BlocksTerminated ==
    (shStatus = "running" /\ curBlock = NilBlock) => AllTerminated

\* a function lowered successfully whose body nests if/else and while: the
\* entry block and the nine blocks of the nested statement
C1_Witness ==
    /\ shStatus = "running" /\ curBlock = NilBlock /\ last = EndOfBody
    /\ \E f \in 1..Len(Module) : Len(Module[f].blocks) >= 10

\* the precedence table as the claim gives it
ClaimPrecedence(op) ==
    CASE op \in {Ord["="], Ord["!"]} -> 0
      [] op \in {Ord["<"], Ord[">"]} -> 10
      [] op \in {Ord["+"], Ord["-"]} -> 20
      [] op = Ord["*"] -> 40

\* the tokens of an expression tree, left to right
RECURSIVE InOrder(_)
InOrder(e) ==
    IF e.kind = "Bin"
    THEN InOrder(e.lhs) \o <<Tok(e.op, "", 0)>> \o InOrder(e.rhs)
    ELSE <<Num(e.val)>>

\* every operator node binds at least as tight as its parent on the left
\* (left associativity) and strictly tighter on the right
RECURSIVE BindsAsClaimed(_)
BindsAsClaimed(e) ==
    e.kind = "Bin" =>
        /\ e.lhs.kind = "Bin" => ClaimPrecedence(e.lhs.op) >= ClaimPrecedence(e.op)
        /\ e.rhs.kind = "Bin" => ClaimPrecedence(e.rhs.op) > ClaimPrecedence(e.op)
        /\ BindsAsClaimed(e.lhs)
        /\ BindsAsClaimed(e.rhs)

Two == NumberExprAST(2)
Three == NumberExprAST(3)
Four == NumberExprAST(4)

Stream3(op1, op2) ==
    <<Operand(1), Tok(Ord[op1], "", 0), Operand(2), Tok(Ord[op2], "", 0), Operand(3)>>

\* C2: parseExpression on operands separated by operators of the table
\* succeeds, consumes the stream, and builds the tree of these tokens in
\* which an operator of higher precedence binds tighter than a neighbour of
\* lower precedence and operators of equal precedence associate to the
\* left; 2 + 3 * 4 is 2 + (3 * 4), 2 * 3 + 4 is (2 * 3) + 4 and 2 - 3 - 4 is
\* (2 - 3) - 4.
C2_PrecedenceAndAssociativity ==
    tpos > 0 =>
        /\ lastErr = ""
        /\ tpos = Len(tokens) + 1
        /\ InOrder(parsed) = tokens
        /\ BindsAsClaimed(parsed)
        /\ tokens = Stream3("+", "*") =>
              parsed = BinaryExprAST(Two, Ord["+"], BinaryExprAST(Three, Ord["*"], Four))
        /\ tokens = Stream3("*", "+") =>
              parsed = BinaryExprAST(BinaryExprAST(Two, Ord["*"], Three), Ord["+"], Four)
        /\ tokens = Stream3("-", "-") =>
              parsed = BinaryExprAST(BinaryExprAST(Two, Ord["-"], Three), Ord["-"], Four)

C2_Witness ==
    /\ tokens = Stream3("+", "*")
    /\ parsed = BinaryExprAST(Two, Ord["+"], BinaryExprAST(Three, Ord["*"], Four))

\* a step that lowers the statement last' inside a function
StatementStep == curBlock # NilBlock /\ nstmts' = nstmts + 1

\* C3 (as claimed): an assignment to a name bound as a global constant,
\* inside a function, fails with "cannot write to constant variable" and
\* leaves the tables of names as they were.
C3_SetConstantFails ==
    [][(StatementStep /\ last'.kind = "Assign" /\ HasVar(State, 0, last'.name)) =>
          /\ lastErr' = "cannot write to constant variable: " \o last'.name
          /\ namedValues' = namedValues]_vars

\* C3 (amended): an assignment to a name bound as a global constant, inside
\* a function, whose expression lowers without error, fails with "cannot
\* write to constant variable" and leaves the tables of names as they were.
C3_SetConstantFailsOnceLowered ==
    [][(/\ StatementStep /\ last'.kind = "Assign" /\ HasVar(State, 0, last'.name)
        /\ Gen("CodeGenExpr", State, curBlock, last'.expr, <<>>).err = "") =>
          /\ lastErr' = "cannot write to constant variable: " \o last'.name
          /\ shStatus' = "fatal"
          /\ namedValues' = namedValues]_vars

C3_Witness ==
    /\ curBlock # NilBlock
    /\ last = AssignmentAST("x", NumberExprAST(6))
    /\ HasVar(State, 0, "x")
    /\ lastErr = "cannot write to constant variable: x"

\* C4: the function of scenario C is parsed and lowered without error: its
\* entry block branches on the condition to the then and the else block,
\* these two return, and the after block needs no return.
C4_ScenarioCLowers ==
    (tokens = SrcCmp /\ tpos > 1) =>
        /\ shStatus \in {"running", "done"}
        /\ lastErr = ""
        /\ Len(Module) = 1
        /\ Len(Module[1].blocks) = 4
        /\ Module[1].blocks[1].term.op = "condbr"
        /\ Module[1].blocks[2].term.op = "ret"
        /\ Module[1].blocks[4].term.op = "ret"

\* the type of an operand as the program text gives it
OperandType(st, e) ==
    CASE e.kind = "Num" -> Double
      [] e.kind = "Str" -> StringT
      [] e.kind = "Call" ->
            LET f == getFunc(st.Module, e.func) IN
            IF f = 0 THEN Invalid
            ELSE IF st.Module[f].ret = TDouble THEN Double
            ELSE IF st.Module[f].ret = TI8Ptr THEN StringT
            ELSE Invalid
      [] OTHER -> Invalid

\* the expression of a statement
ExprOf(stmt) == IF stmt.kind \in {"Assign", "Return"} THEN stmt.expr ELSE stmt

MixedBinary(st, e) ==
    /\ e.kind = "Bin"
    /\ {OperandType(st, e.lhs), OperandType(st, e.rhs)} = {Double, StringT}

\* C5: lowering a binary expression with one Double and one String operand
\* fails with "types in binary expression must match" and appends no
\* instruction to the module.
C5_MismatchEmitsNothing ==
    [][(StatementStep /\ MixedBinary(State, ExprOf(last'))) =>
          /\ lastErr' = "types in binary expression must match"
          /\ Module' = Module]_vars

\* C6: a call of NextToken during which the reader runs out of bytes sets
\* CurrTok to TokEOF and does not abort.
C6_EndOfStreamIsEOF ==
    [][parseToken(input, rpos, String, NumVal).eos =>
          /\ lexStatus' = "ok"
          /\ CurrTok' = TokEOF]_vars

\* C7: the module is written at most once, and only by the step that finds
\* TokEOF in a run that has not failed; once a parse or a lowering has
\* failed the run takes no further step (nothing more is parsed, lowered or
\* written).
C7_OutputOnceAtEOF ==
    [][/\ shStatus \notin {"fatal", "panic", "done"}
       /\ Len(output') <= 1
       /\ output' # output =>
            /\ shStatus = "running" /\ Cur(tokens, tpos) = TokEOF
            /\ output = <<>> /\ output' = <<Module>>
            /\ shStatus' = "done"
       /\ shStatus' \in {"fatal", "panic"} => output' = <<>>]_vars

\* a run that wrote the module of a program that declares something
C7_Witness == shStatus = "done" /\ output = <<Module>> /\ Len(Module) >= 1

\* the keyword set of the claim and the token of each word
ClaimKeywords ==
    [w \in {Bytes(k) : k \in KeywordSpellings} |->
        CASE w = Bytes(<<"d", "e", "f">>) -> TokDef
          [] w = Bytes(<<"e", "x", "t", "e", "r", "n">>) -> TokExtern
          [] w = Bytes(<<"s", "e", "t">>) -> TokSet
          [] w = Bytes(<<"c", "o", "n", "s", "t">>) -> TokConst
          [] w = Bytes(<<"r", "e", "t", "u", "r", "n">>) -> TokReturn
          [] w = Bytes(<<"i", "f">>) -> TokIf
          [] w = Bytes(<<"e", "l", "s", "e">>) -> TokElse
          [] w = Bytes(<<"w", "h", "i", "l", "e">>) -> TokWhile
          [] w = Bytes(<<"s", "t", "r", "i", "n", "g">>) -> TokString
          [] w = Bytes(<<"d", "o", "u", "b", "l", "e">>) -> TokDouble
          [] w = Bytes(<<"v", "o", "i", "d">>) -> TokVoid]

\* the longest run of letters, digits and underscores a stream starts with
RECURSIVE LeadingRun(_)
LeadingRun(s) ==
    IF s # <<>> /\ (IsLetter(Head(s)) \/ IsDigit(Head(s)) \/ Head(s) = 95)
    THEN <<Head(s)>> \o LeadingRun(Tail(s))
    ELSE <<>>

\* C8: on a stream that starts with a letter, the first call of NextToken
\* yields the keyword token if the run of letters, digits and underscores
\* the stream starts with is a keyword, and TokIdentifier with the text of
\* the run otherwise.
C8_KeywordsAndIdentifiers ==
    [][(rpos = 0 /\ input # <<>> /\ IsLetter(Head(input))) =>
          /\ lexStatus' = "ok"
          /\ IF LeadingRun(input) \in DOMAIN ClaimKeywords
             THEN CurrTok' = ClaimKeywords[LeadingRun(input)]
             ELSE CurrTok' = TokIdentifier /\ String' = LeadingRun(input)]_vars

\* the entry block holds, for the parameter, a slot and the store of the
\* parameter into it, and the table of the function names the slot
ParamBound(st, entry, param) ==
    /\ HasVar(st, entry.f, param.name)
    /\ LET slot == st.namedValues[entry.f][param.name]
           insts == BlockOf(st, entry).insts
       IN /\ slot.k = "inst" /\ slot.f = entry.f /\ slot.b = entry.b
          /\ insts[slot.idx].op = "alloca"
          /\ \E i \in 1..Len(insts) :
                /\ insts[i].op = "store"
                /\ insts[i].dst = slot
                /\ insts[i].src.k = "param"
                /\ insts[i].src.name = param.name

\* C9: after the statements of a body, a current block without terminator
\* makes the lowering fail with "needs return" if the return type is not
\* Void and gets a bare return if it is Void (a block with a terminator is
\* left alone); and when the first statement is about to be lowered the
\* parameters are bound in the table of the function.
C9_ReturnRuleAndParameters ==
    [][/\ last' = EndOfBody =>
            IF BlockOf(State, curBlock).term = NoTerm
            THEN IF curProto.ret # Void
                 THEN /\ shStatus' = "fatal"
                      /\ lastErr' = "non-void function: " \o curProto.name \o " needs return"
                      /\ Module' = Module
                 ELSE /\ shStatus' = "running"
                      /\ Module' = SetTerm(State, curBlock,
                                           [op |-> "ret", x |-> NilValue]).Module
            ELSE /\ shStatus' = "running"
                 /\ Module' = Module
       /\ (curBlock = NilBlock /\ curBlock' # NilBlock) =>
            /\ nstmts' = nstmts
            /\ BlockOf(State', curBlock').name = <<"entry">>
            /\ \A k \in 1..Len(last'.params) :
                  ParamBound(State', curBlock', last'.params[k])]_vars

\* a void function whose body left its last block open got the bare return
C9_Witness ==
    /\ last = EndOfBody /\ shStatus = "running" /\ curProto.ret = Void
    /\ \E f \in 1..Len(Module) : \E b \in 1..Len(Module[f].blocks) :
          Module[f].blocks[b].term = [op |-> "ret", x |-> NilValue]

\* the call instructions of a module, each as <<function, block, index>>
CallSites(module) ==
    UNION { UNION { { <<f, b, i>> :
                        i \in { j \in 1..Len(module[f].blocks[b].insts) :
                                   module[f].blocks[b].insts[j].op = "call" } } :
                    b \in 1..Len(module[f].blocks) } :
            f \in 1..Len(module) }

\* the names a statement calls
RECURSIVE CalledNames(_)
CalledNames(a) ==
    CASE a.kind = "Call" ->
            {a.func} \cup UNION {CalledNames(a.args[k]) : k \in 1..Len(a.args)}
      [] a.kind = "Bin" -> CalledNames(a.lhs) \cup CalledNames(a.rhs)
      [] a.kind \in {"Assign", "Return"} -> CalledNames(a.expr)
      [] a.kind = "If" ->
            CalledNames(a.cond)
            \cup UNION {CalledNames(a.ifBody[k]) : k \in 1..Len(a.ifBody)}
            \cup UNION {CalledNames(a.elseBody[k]) : k \in 1..Len(a.elseBody)}
      [] a.kind = "While" ->
            CalledNames(a.cond) \cup UNION {CalledNames(a.body[k]) : k \in 1..Len(a.body)}
      [] OTHER -> {}

\* the call a statement evaluates before anything else, "" if it starts
\* with something else
RECURSIVE FirstCall(_)
FirstCall(a) ==
    CASE a.kind = "Call" -> a.func
      [] a.kind = "Bin" -> FirstCall(a.lhs)
      [] a.kind \in {"Assign", "Return"} -> FirstCall(a.expr)
      [] a.kind \in {"If", "While"} -> FirstCall(a.cond)
      [] OTHER -> ""

Declared(module, name) == \E f \in 1..Len(module) : module[f].name = name

\* C10: lowering a statement appends call instructions only to functions
\* that are in the module before the statement is lowered and that the
\* statement names; a statement that starts with a call to a name no
\* function of the module has fails with "could not find function" and
\* appends no call instruction.
C10_CallsResolveToDeclared ==
    [][StatementStep =>
          /\ \A c \in CallSites(Module') \ CallSites(Module) :
                LET callee == Module'[c[1]].blocks[c[2]].insts[c[3]].callee IN
                /\ callee \in 1..Len(Module)
                /\ Module[callee].name \in CalledNames(last')
          /\ (FirstCall(last') # "" /\ ~Declared(Module, FirstCall(last'))) =>
                /\ shStatus' = "fatal"
                /\ lastErr' = "could not find function: " \o FirstCall(last')
                /\ CallSites(Module') = CallSites(Module)]_vars

\* a call to f fails in a module that has another function but not f
C10_Witness ==
    /\ curBlock # NilBlock /\ last = CallExprAST("f", <<One>>)
    /\ lastErr = "could not find function: f"
    /\ Len(Module) >= 2

\* a step that lowers the top-level declaration last'
DeclarationStep == curBlock = NilBlock /\ ndecls' = ndecls + 1

\* C11: lowering at global scope a variable that has no global binding
\* (retrieveVar with no enclosing block) fails with "could not identify
\* var".
C11_UnboundGlobalFails ==
    [][(/\ DeclarationStep /\ last'.kind = "Assign" /\ last'.expr.kind = "Var"
        /\ ~HasVar(State, 0, last'.expr.name)) =>
          /\ shStatus' = "fatal"
          /\ lastErr' = "could not identify var: " \o last'.expr.name]_vars

Locals(f) == DOMAIN namedValues[f]

\* C12 (as claimed): no name is bound both in the global table and in the
\* local table of some function.
C12_NoNameInBothTables ==
    \A f \in DOMAIN namedValues \ {0} : Locals(f) \cap Locals(0) = {}

\* C12 (amended): no name is bound both in the global table and in the
\* local table of the function that is being lowered.
C12_NoNameInBothLiveTables ==
    curBlock # NilBlock => Locals(curBlock.f) \cap Locals(0) = {}

\* a function with a local is being lowered while a global is bound
C12_Witness ==
    /\ curBlock # NilBlock /\ shStatus = "running"
    /\ Locals(curBlock.f) # {} /\ Locals(0) # {}

\* the blocks of the grammar as claimed: set, return and expression statements
\* end with ; and if and while statements end at the } of their last block
ClaimedBlocks == BlocksOf(WithSemicolon(SimpleStatements) \cup CompoundStatements)

\* C13: inside a statement block an if or while statement is accepted without
\* a following ; and only set, return and expression statements need one.
C13_CompoundNeedsNoSemicolon ==
    (tpos > 0 /\ tokens \in ClaimedBlocks) =>
        /\ lastErr = ""
        /\ tpos = Len(tokens) + 1

\* the block being lowered, before and after the step
CurBlockNow == Module[curBlock.f].blocks[curBlock.b]
CurBlockNext == Module'[curBlock.f].blocks[curBlock.b]

\* the module differs from the one before the step in the current block only
OnlyCurBlockChanges ==
    Module' = [Module EXCEPT ![curBlock.f].blocks[curBlock.b] = CurBlockNext]

\* C14: retrieveVar inside a function, seen through `return name;`: a name
\* with a local slot is loaded from the slot and the loaded value is the
\* result; otherwise a name bound globally gives the constant itself and no
\* instruction; otherwise the lookup fails with "could not identify var" and
\* no instruction is emitted.
C14_RetrieveVarInFunction ==
    [][(StatementStep /\ last'.kind = "Return" /\ last'.expr.kind = "Var") =>
        LET name == last'.expr.name
            n == Len(CurBlockNow.insts)
        IN
        /\ namedValues' = namedValues
        /\ IF HasVar(State, curBlock.f, name)
           THEN LET slot == namedValues[curBlock.f][name] IN
                /\ lastErr' = ""
                /\ OnlyCurBlockChanges
                /\ Len(CurBlockNext.insts) = n + 1
                /\ SubSeq(CurBlockNext.insts, 1, n) = CurBlockNow.insts
                /\ CurBlockNext.insts[n + 1].op = "load"
                /\ CurBlockNext.insts[n + 1].src = slot
                /\ CurBlockNext.term.op = "ret"
                /\ CurBlockNext.term.x = InstValue(curBlock, n + 1, CurBlockNext.insts[n + 1].ty)
           ELSE IF HasVar(State, 0, name)
           THEN /\ lastErr' = ""
                /\ OnlyCurBlockChanges
                /\ CurBlockNext.insts = CurBlockNow.insts
                /\ CurBlockNext.term = [op |-> "ret", x |-> namedValues[0][name]]
           ELSE /\ lastErr' = "could not identify var: " \o name
                /\ shStatus' = "fatal"
                /\ Module' = Module]_vars

\* `return a;` has loaded the parameter a from its slot
C14_Witness ==
    /\ curBlock # NilBlock /\ shStatus = "running"
    /\ last = ReturnAST(VarA)
    /\ HasVar(State, curBlock.f, "a")
    /\ BlockOf(State, curBlock).term.op = "ret"
    /\ BlockOf(State, curBlock).term.x.k = "inst"

\* the lowering of the expression of the assignment last', which
\* AssignmentAST.CodeGen does before it calls setVar
AssignedExpr == Gen("CodeGenExpr", State, curBlock, last'.expr, <<>>)

MaxOf(S) == IF S = {} THEN 0 ELSE LET x == CHOOSE x \in S : \A y \in S : y <= x IN x

BlocksSeen(module) == MaxOf({Len(module[f].blocks) : f \in DOMAIN module})
InstsSeen(module) ==
    MaxOf({Len(module[f].blocks[b].insts) :
             <<f, b>> \in {<<f, b>> \in (DOMAIN module) \X (1..BlocksSeen(module)) :
                             b <= Len(module[f].blocks)}})

\* the store instructions into a slot that a module holds
StoresInto(module, slot) ==
    {<<f, b, i>> \in {<<f, b, i>> : f \in DOMAIN module, b \in 1..BlocksSeen(module), i \in 1..InstsSeen(module)} :
        /\ b <= Len(module[f].blocks)
        /\ i <= Len(module[f].blocks[b].insts)
        /\ module[f].blocks[b].insts[i].op = "store"
        /\ module[f].blocks[b].insts[i].dst = slot}

\* C15: setVar inside a function for a name that has a local slot stores the
\* value when its type is the slot's element type; otherwise it fails with
\* "cannot store incompatible type", emits no store and leaves the name
\* bound to the same slot.
C15_StoreChecksType ==
    [][(/\ StatementStep /\ last'.kind = "Assign"
        /\ HasVar(State, curBlock.f, last'.name)
        /\ AssignedExpr.err = "" /\ AssignedExpr.val # NilValue) =>
        LET name == last'.name
            slot == namedValues[curBlock.f][name]
            val == AssignedExpr.val
        IN
        /\ namedValues' = namedValues
        /\ IF val.ty = ElemType(slot.ty)
           THEN /\ lastErr' = ""
                /\ Module' = Emit(AssignedExpr.st, curBlock,
                                  [op |-> "store", src |-> val, dst |-> slot]).Module
           ELSE /\ lastErr' = "cannot store incompatible type for: " \o name
                /\ shStatus' = "fatal"
                /\ Module' = AssignedExpr.st.Module
                /\ StoresInto(Module', slot) = StoresInto(Module, slot)]_vars

\* `set a = s();` has failed on the double slot of the parameter a
C15_Witness ==
    /\ curBlock # NilBlock
    /\ last = AssignmentAST("a", CallExprAST("s", <<>>))
    /\ HasVar(State, curBlock.f, "a")
    /\ namedValues[curBlock.f]["a"].ty = Ptr(TDouble)
    /\ lastErr = "cannot store incompatible type for: a"

\* C16: a top-level `const name = expr` whose value is computed, here by a
\* call of a declared function, fails with "not equal to constant
\* expression" and leaves the name bound in the global table.
C16_ComputedConstBoundThenFails ==
    [][(/\ DeclarationStep /\ last'.kind = "Assign" /\ last'.expr.kind = "Call"
        /\ getFunc(Module, last'.expr.func) # 0) =>
          /\ shStatus' = "fatal"
          /\ lastErr' = last'.name \o " is not equal to constant expression"
          /\ last'.name \in DOMAIN namedValues'[0]]_vars

BlockNames(f) == [b \in 1..Len(Module[f].blocks) |-> Module[f].blocks[b].name]

\* C17: within any one function of the module all basic blocks have
\* pairwise distinct names, after any sequence of lowered declarations.
C17_BlockNamesDistinct ==
    \A f \in DOMAIN Module :
        \A b1, b2 \in DOMAIN BlockNames(f) :
            b1 # b2 => BlockNames(f)[b1] # BlockNames(f)[b2]

\* C18: lowering a binary expression with no enclosing block, as the value
\* of a top-level const, fails with "can not use binary expression at top
\* level" before an operand is lowered, and leaves the global table and the
\* module as they were.
C18_TopLevelBinaryRejected ==
    [][(DeclarationStep /\ last'.kind = "Assign" /\ last'.expr.kind = "Bin") =>
          /\ shStatus' = "fatal"
          /\ lastErr' = "can not use binary expression at top level"
          /\ Module' = Module
          /\ namedValues' = namedValues]_vars

\* `const x = h() + 1.0;` has failed, and not on its operand h()
C18_Witness ==
    /\ curBlock = NilBlock
    /\ last = AssignmentAST("x", BinaryExprAST(CallExprAST("h", <<>>), Ord["+"], One))
    /\ getFunc(Module, "h") = 0
    /\ lastErr = "can not use binary expression at top level"

\* an operand whose value is a string: a literal or a call returning string
StringOperand(st, e) == OperandType(st, e) = StringT

\* C19: a binary expression whose two operands are String-typed values fails
\* with "unsupported operator for double", whatever the operator.
C19_StringOperandsUnsupported ==
    [][(/\ StatementStep /\ ExprOf(last').kind = "Bin"
        /\ StringOperand(State, ExprOf(last').lhs)
        /\ StringOperand(State, ExprOf(last').rhs)) =>
          /\ shStatus' = "fatal"
          /\ lastErr' = "unsupported operator for double: " \o RuneText(ExprOf(last').op)]_vars

\* the name newBlock gives a block of a role created in the block `enclosing`
NewBlockName(enclosing, role) == <<role, "_">> \o getMD5Hash(enclosing \o <<role>>)

IsCompound(stmt) == stmt.kind \in {"If", "While"}

AfterRole(stmt) == IF stmt.kind = "If" THEN "if-after-block" ELSE "while-after"

\* the name of the block that is current after a body lowered from the
\* block `name`: an if or a while moves on to its after block
RECURSIVE FinalBlockName(_, _)
FinalBlockName(name, body) ==
    IF body = <<>> THEN name
    ELSE FinalBlockName(IF IsCompound(Head(body))
                        THEN NewBlockName(name, AfterRole(Head(body)))
                        ELSE name,
                        Tail(body))

\* the body returns in its final block: a return that no if or while follows
TrailingReturn(body) ==
    \E i \in DOMAIN body :
        /\ body[i].kind = "Return"
        /\ \A j \in i..Len(body) : ~IsCompound(body[j])

\* C20: lowering an If statement in block B creates a then block and an
\* after block, and an else block exactly when there is an else-body; the
\* final block of each body branches to the after block exactly when the
\* body left it without terminator; B ends in a conditional branch to then
\* and else, or to then and after without else-body; the after block is the
\* block of the statements that follow.
C20_IfLowering ==
    [][(StatementStep /\ last'.kind = "If" /\ lastErr' = "") =>
        LET f == curBlock.f
            n == Len(Module[f].blocks)
            blocks == Module'[f].blocks
            New(name) == {k \in (n + 1)..Len(blocks) : blocks[k].name = name}
            thenName == NewBlockName(CurBlockNow.name, "if-true-block")
            afterName == NewBlockName(CurBlockNow.name, "if-after-block")
            elseName == NewBlockName(CurBlockNow.name, "if-false-block")
            hasElse == last'.elseBody # <<>>
            Closed(start, body) ==
                /\ New(FinalBlockName(start, body)) # {}
                /\ \A k \in New(FinalBlockName(start, body)) :
                     IF TrailingReturn(body)
                     THEN blocks[k].term.op = "ret"
                     ELSE blocks[k].term = [op |-> "br", target |-> n + 2]
        IN
        /\ Len(blocks) >= n + 2
        /\ blocks[n + 1].name = thenName
        /\ blocks[n + 2].name = afterName
        /\ hasElse <=> New(elseName) # {}
        /\ Cardinality(New(elseName)) <= 1
        /\ Closed(thenName, last'.ifBody)
        /\ hasElse => Closed(elseName, last'.elseBody)
        /\ CurBlockNext.term.op = "condbr"
        /\ CurBlockNext.term.t = n + 1
        /\ CurBlockNext.term.f \in (IF hasElse THEN New(elseName) ELSE {n + 2})
        /\ curBlock' = [f |-> f, b |-> n + 2]]_vars

\* `if a { return a; } else { return 1.0; };` has been lowered: three new
\* blocks, and the statements that follow go to the after block
C20_Witness ==
    /\ shStatus = "running" /\ lastErr = ""
    /\ last = IfAST(VarA, <<ReturnAST(VarA)>>, <<RetOne>>)
    /\ curBlock.b = Len(Module[curBlock.f].blocks) - 1
    /\ Module[curBlock.f].blocks[curBlock.b + 1].term = [op |-> "ret", x |-> ConstFloat(1)]

\* a step that ends the lowering of the function being defined
FunctionEndStep == curBlock # NilBlock /\ last' = EndOfBody

\* C21: lowering a While statement in block B creates the three blocks
\* test, loop and after; B branches to test; the condition is evaluated in
\* test, which ends in a conditional branch to loop or after; the final
\* block of the body branches back to test exactly when the body left it
\* without terminator; after is the block of the statements that follow,
\* and there a void function that ends in the loop gets its bare return.
C21_WhileLowering ==
    [][/\ (StatementStep /\ last'.kind = "While" /\ lastErr' = "") =>
            LET f == curBlock.f
                n == Len(Module[f].blocks)
                blocks == Module'[f].blocks
                New(name) == {k \in (n + 1)..Len(blocks) : blocks[k].name = name}
                loopName == NewBlockName(CurBlockNow.name, "while-loop")
                final == New(FinalBlockName(loopName, last'.body))
                test == blocks[n + 1]
            IN
            /\ Len(blocks) >= n + 3
            /\ (\A i \in DOMAIN last'.body : ~IsCompound(last'.body[i])) => Len(blocks) = n + 3
            /\ test.name = NewBlockName(CurBlockNow.name, "while-test")
            /\ blocks[n + 2].name = loopName
            /\ blocks[n + 3].name = NewBlockName(CurBlockNow.name, "while-after")
            /\ CurBlockNext.term = [op |-> "br", target |-> n + 1]
            /\ CurBlockNext.insts = CurBlockNow.insts
            /\ test.insts # <<>>
            /\ test.insts[Len(test.insts)].op = "fcmp"
            /\ last'.cond.kind = "Var" => Len(test.insts) = 2 /\ test.insts[1].op = "load"
            /\ test.term.op = "condbr"
            /\ test.term.cond = InstValue([f |-> f, b |-> n + 1], Len(test.insts), TI1)
            /\ test.term.t = n + 2
            /\ test.term.f = n + 3
            /\ final # {}
            /\ \A k \in final :
                 IF TrailingReturn(last'.body)
                 THEN blocks[k].term.op = "ret"
                 ELSE blocks[k].term = [op |-> "br", target |-> n + 1]
            /\ blocks[n + 3].insts = <<>>
            /\ blocks[n + 3].term = NoTerm
            /\ curBlock' = [f |-> f, b |-> n + 3]
       /\ (FunctionEndStep /\ last.kind = "While" /\ curProto.ret = Void) =>
            /\ lastErr' = ""
            /\ CurBlockNow.name[1] = "while-after"
            /\ CurBlockNext.term = [op |-> "ret", x |-> NilValue]]_vars

\* a void function has ended in `while a { set a = a - 1.0; };`: its after
\* block holds the bare return
C21_Witness ==
    /\ last = EndOfBody /\ lastErr = "" /\ curProto.ret = Void
    /\ Module # <<>>
    /\ LET blocks == Module[Len(Module)].blocks IN
       /\ Len(blocks) >= 4
       /\ blocks[Len(blocks)].name[1] = "while-after"
       /\ blocks[Len(blocks)].term = [op |-> "ret", x |-> NilValue]
       /\ blocks[Len(blocks) - 2].term.op = "condbr"

\* the index of the * of the first */ of s at or after index i, 0 if none
RECURSIVE CommentEnd(_, _)
CommentEnd(s, i) ==
    IF i + 1 > Len(s) THEN 0
    ELSE IF s[i] = 42 /\ s[i + 1] = 47 THEN i
    ELSE CommentEnd(s, i + 1)

Unterminated == <<-1>>

\* the stream without the whitespace and the block comments it starts with
RECURSIVE StripBlanks(_)
StripBlanks(s) ==
    IF s = <<>> THEN s
    ELSE IF IsSpace(Head(s)) THEN StripBlanks(Tail(s))
    ELSE IF Len(s) >= 2 /\ s[1] = 47 /\ s[2] = 42
    THEN IF CommentEnd(s, 3) = 0 THEN Unterminated
         ELSE StripBlanks(SubSeq(s, CommentEnd(s, 3) + 2, Len(s)))
    ELSE s

\* C22: NextToken skips any run of whitespace and any number of terminated
\* block comments before a token and classifies the first byte after them:
\* the call gives what it gives on the stream without them, and no byte of
\* a comment is returned as token.
C22_AllCommentsSkipped ==
    [][(rpos = 0 /\ lexStatus = "ok" /\ StripBlanks(input) # Unterminated) =>
        LET r == parseToken(StripBlanks(input), 0, String, NumVal) IN
        IF r.panic THEN lexStatus' = "panic"
        ELSE /\ lexStatus' = "ok"
             /\ CurrTok' = r.tok
             /\ String' = r.str
             /\ NumVal' = r.num]_vars

\* what is left of the stream for the next call of NextToken
Unread == SubSeq(input, rpos + 1, Len(input))

RECURSIVE StripSpaces(_)
StripSpaces(s) == IF s # <<>> /\ IsSpace(Head(s)) THEN StripSpaces(Tail(s)) ELSE s

StartsComment(s) == Len(s) >= 2 /\ s[1] = 47 /\ s[2] = 42

\* a byte that starts no identifier, number, string literal or whitespace
IsOtherByte(c) == ~IsLetter(c) /\ ~IsDigit(c) /\ c # 34 /\ ~IsSpace(c)

\* C23: a byte that starts no identifier, number, string literal, comment or
\* whitespace is returned as the token whose value is that byte, at every
\* position of the stream, the last byte of the input included.
C23_OtherByteIsToken ==
    [][(/\ lexStatus = "ok"
        /\ StripSpaces(Unread) # <<>>
        /\ IsOtherByte(Head(StripSpaces(Unread)))
        /\ ~StartsComment(StripSpaces(Unread))) =>
          /\ lexStatus' = "ok"
          /\ CurrTok' = Head(StripSpaces(Unread))]_vars

\* C24: the module never holds two functions of the same name, after any
\* sequence of extern declarations and function definitions.
C24_FunctionNamesDistinct ==
    \A f, g \in 1..Len(Module) : f # g => Module[f].name # Module[g].name

\* C25: once a return has set the terminator of a block, no statement
\* lowered later in the same list replaces it.
C25_ReturnStaysTerminator ==
    [][(StatementStep /\ CurBlockNow.term.op = "ret") =>
          CurBlockNext.term = CurBlockNow.term]_vars

\* a step that starts the lowering of the function definition last': its
\* function has got a block
FunctionBeginStep ==
    /\ DeclarationStep /\ last'.kind = "Proto"
    /\ LET f == getFunc(Module', last'.name) IN
       /\ f # 0
       /\ Len(Module'[f].blocks) > (IF f <= Len(Module) THEN Len(Module[f].blocks) ELSE 0)

\* C26: a function definition with a parameter that has the name of a bound
\* global constant lowers without error, and the parameter becomes a local
\* of the function.
C26_ParameterShadowsGlobal ==
    [][(/\ FunctionBeginStep
        /\ \E k \in DOMAIN last'.params : HasVar(State, 0, last'.params[k].name)) =>
          /\ lastErr' = ""
          /\ shStatus' = "running"
          /\ curBlock' # NilBlock
          /\ \A k \in DOMAIN last'.params :
                last'.params[k].name \in DOMAIN namedValues'[getFunc(Module', last'.name)]]_vars

====
